---- MODULE Spec2Model ----
(***************************************************************************)
(* Iowa Gambling Task: the deck scheduler (DeckManager), the gambling      *)
(* session (GameSession, select_deck) and the scorer                       *)
(* (calculate_igt_score), as state machines over the objects' fields.      *)
(*                                                                         *)
(* Methods are operators from the object's state and the arguments to the  *)
(* new state and the returned value (or the raised exception); the         *)
(* actions apply them to the variables.                                    *)
(***************************************************************************)
EXTENDS Integers, Sequences, FiniteSets, TLC

VARIABLES
    deck_manager,   \* st.session_state.deck_manager: [deck_indices, deck_counts]
    session,        \* st.session_state.session: the GameSession's fields
    ui,             \* the scalar keys of st.session_state
    batch_log,      \* the batches handed to log_batch_trials, in call order
    clock,          \* time.time(), in ticks
    ret,            \* what the most recent call returned or raised
    drawn,          \* per deck, the triples returned by direct draw_card calls
    recall_state,   \* st.session_state of the free-recall application
    recall_ret,     \* what the free-recall application's most recent call
                    \* returned or raised
    encoding_state, \* st.session_state of the encoding-session application
    recall_pass_state, \* st.session_state of the recall-session application
    calls,          \* the values returned by direct calls, in call order
    frame,          \* the locals of the batch_log_pending_trials call that
                    \* is running step by step, if one is
    sheets          \* per Google sheet of SHEET_INFO, the rows appended to it

\* the variables of the free-recall application
recall_vars == <<recall_state, recall_ret>>

\* the variables of the two-session variant, of the direct calls and of
\* the stepwise call
other_vars == <<encoding_state, recall_pass_state, calls, frame, sheets>>

vars == <<deck_manager, session, ui, batch_log, clock, ret, drawn,
          recall_state, recall_ret, encoding_state, recall_pass_state, calls,
          frame, sheets>>

-----------------------------------------------------------------------------
(* Bounds of the exploration *)

\* direct draw_card calls on the one deck that is drawn deep into its cycle
MaxDraws == 43
\* direct draw_card calls on each of the other decks, interleaved anywhere
MaxSide == 2
\* select_deck calls on one session
MaxTrials == 6

-----------------------------------------------------------------------------
(* Values *)

\* an Optional field is a sequence of length at most one
None == << >>
Some(v) == <<v>>

\* the outcome of a call: the returned value or the raised exception
Returned(v) == [raised |-> FALSE, value |-> v]
Raised(e)   == [raised |-> TRUE, value |-> e]

\* the outcome of the call op(arg), as the caller sees it
Call(op, arg, outcome) ==
    [op |-> op, arg |-> arg, raised |-> outcome.raised, value |-> outcome.value]

Decks == {"A", "B", "C", "D"}

\* the deck symbols a caller passes: the four decks and unrecognised ones
DeckSymbols == Decks \cup {"E", "a"}

-----------------------------------------------------------------------------
(* DeckManager *)

CycleLength == 40

rewards == [A |-> 100, B |-> 100, C |-> 50, D |-> 50]

\* the schedule with one card mistyped (deck A, card 3: 100 for 150)
penalty_schedules_typo ==
    [A |-> << 0, 0, 100, 0, 300, 0, 200, 0, 250, 350,
              0, 350, 0, 250, 0, 200, 0, 300, 150, 0,
              150, 0, 300, 0, 0, 200, 250, 0, 0, 350,
              350, 0, 200, 250, 0, 0, 150, 0, 300, 0 >>,
     B |-> << 0, 0, 0, 0, 0, 0, 0, 0, 1250, 0,
              0, 0, 0, 0, 0, 0, 0, 0, 0, 1250,
              0, 0, 0, 0, 1250, 0, 0, 0, 0, 0,
              0, 0, 0, 0, 0, 0, 1250, 0, 0, 0 >>,
     C |-> << 0, 0, 50, 0, 50, 0, 50, 0, 50, 50,
              0, 25, 0, 75, 0, 50, 0, 25, 75, 0,
              50, 0, 25, 0, 0, 75, 50, 0, 0, 50,
              25, 0, 75, 50, 0, 0, 25, 0, 75, 0 >>,
     D |-> << 0, 0, 0, 0, 0, 0, 0, 0, 250, 0,
              0, 0, 0, 0, 0, 0, 0, 0, 0, 250,
              0, 0, 0, 0, 250, 0, 0, 0, 0, 0,
              0, 0, 0, 0, 0, 0, 250, 0, 0, 0 >>]

penalty_schedules ==
    [A |-> << 0, 0, 150, 0, 300, 0, 200, 0, 250, 350,
              0, 350, 0, 250, 0, 200, 0, 300, 150, 0,
              150, 0, 300, 0, 0, 200, 250, 0, 0, 350,
              350, 0, 200, 250, 0, 0, 150, 0, 300, 0 >>,
     B |-> << 0, 0, 0, 0, 0, 0, 0, 0, 1250, 0,
              0, 0, 0, 0, 0, 0, 0, 0, 0, 1250,
              0, 0, 0, 0, 1250, 0, 0, 0, 0, 0,
              0, 0, 0, 0, 0, 0, 1250, 0, 0, 0 >>,
     C |-> << 0, 0, 50, 0, 50, 0, 50, 0, 50, 50,
              0, 25, 0, 75, 0, 50, 0, 25, 75, 0,
              50, 0, 25, 0, 0, 75, 50, 0, 0, 50,
              25, 0, 75, 50, 0, 0, 25, 0, 75, 0 >>,
     D |-> << 0, 0, 0, 0, 0, 0, 0, 0, 250, 0,
              0, 0, 0, 0, 0, 0, 0, 0, 0, 250,
              0, 0, 0, 0, 250, 0, 0, 0, 0, 0,
              0, 0, 0, 0, 0, 0, 250, 0, 0, 0 >>]

\* DeckManager(): every cursor and every counter at 0
DeckManager ==
    [deck_indices |-> [d \in Decks |-> 0],
     deck_counts  |-> [d \in Decks |-> 0]]

\* the card read after the cursor has moved instead of before
PenaltyAt_after_advance(deck, current_index) ==
    penalty_schedules[deck][((current_index + 1) % CycleLength) + 1]

\* the card under the cursor (the schedule is a 0-based list in the source)
PenaltyAt(deck, current_index) == penalty_schedules[deck][current_index + 1]

\* the cursor wrapping to the second card instead of the first
NextIndex_wrap_to_second(current_index) ==
    IF current_index + 1 >= CycleLength THEN 1 ELSE current_index + 1

\* the cursor after a draw
NextIndex(current_index) == (current_index + 1) % CycleLength

\* one cursor shared by the four decks
AdvanceIndex_shared(deck_indices, deck) ==
    [d \in DOMAIN deck_indices |-> NextIndex(deck_indices[d])]

\* self.deck_indices[deck] = (current_index + 1) % 40
AdvanceIndex(deck_indices, deck) ==
    [deck_indices EXCEPT ![deck] = NextIndex(@)]

\* the counter moved by two
CountDraw_by_two(deck_counts, deck) ==
    [deck_counts EXCEPT ![deck] = @ + 2]

\* the counter assigned instead of incremented
CountDraw_assign(deck_counts, deck) ==
    [deck_counts EXCEPT ![deck] = 1]

\* self.deck_counts[deck] += 1
CountDraw(deck_counts, deck) ==
    [deck_counts EXCEPT ![deck] = @ + 1]

\* an unrecognised deck answered with a default triple instead of an error
InvalidDeck_default(self, deck) ==
    [self |-> self,
     ret  |-> Returned([reward |-> 0, penalty |-> 0, net_outcome |-> 0])]

\* raise ValueError(f"Invalid deck: {deck}")
InvalidDeck(self, deck) ==
    [self |-> self, ret |-> Raised([error |-> "ValueError", deck |-> deck])]

\* draw_card with the net outcome's sign reversed
draw_card_net_reversed(self, deck) ==
    IF deck \notin DOMAIN rewards
    THEN InvalidDeck(self, deck)
    ELSE LET reward        == rewards[deck]
             current_index == self.deck_indices[deck]
             penalty       == PenaltyAt(deck, current_index)
             net_outcome   == penalty - reward
         IN  [self |-> [deck_indices |-> AdvanceIndex(self.deck_indices, deck),
                        deck_counts  |-> CountDraw(self.deck_counts, deck)],
              ret  |-> Returned([reward |-> reward, penalty |-> penalty,
                                 net_outcome |-> net_outcome])]

\* draw_card(self, deck) -> (reward, penalty, net_outcome)
draw_card(self, deck) ==
    IF deck \notin DOMAIN rewards
    THEN InvalidDeck(self, deck)
    ELSE LET reward        == rewards[deck]
             current_index == self.deck_indices[deck]
             penalty       == PenaltyAt(deck, current_index)
             net_outcome   == reward - penalty
         IN  [self |-> [deck_indices |-> AdvanceIndex(self.deck_indices, deck),
                        deck_counts  |-> CountDraw(self.deck_counts, deck)],
              ret  |-> Returned([reward |-> reward, penalty |-> penalty,
                                 net_outcome |-> net_outcome])]

\* get_deck_counts(self): a copy of the counters
get_deck_counts(self) == self.deck_counts

\* reset that also puts every cursor back on the first card
reset_cursors_too(self) ==
    [deck_indices |-> [d \in Decks |-> 0],
     deck_counts  |-> [d \in Decks |-> 0]]

\* reset(self): the counters are set to 0
reset(self) ==
    [self EXCEPT !.deck_counts = [d \in Decks |-> 0]]

-----------------------------------------------------------------------------
(* GameSession *)

initial_balance == 2000
total_trials == 10

\* GameSession(session_id, participant_id, start_time) with the defaults
GameSession ==
    [session_id      |-> "20240101_000000_1000",
     participant_id  |-> "P001",
     start_time      |-> 0,
     trials          |-> << >>,
     initial_balance |-> initial_balance,
     current_balance |-> initial_balance,
     total_trials    |-> total_trials,
     end_time        |-> None]

\* init_session_state followed by start_game
SessionState ==
    [game_started          |-> TRUE,
     game_ended            |-> FALSE,
     last_result           |-> None,
     show_result           |-> FALSE,
     show_participant_input |-> FALSE,
     logged_end            |-> FALSE,
     game_start_timestamp  |-> 0,
     last_logged_trial_idx |-> 0,
     game_end_duration     |-> None]

\* TrialResult(trial_number, deck_choice, reward, penalty, net_outcome,
\* balance_after), constructed at time now: timestamp takes its default
TrialResult(trial_number, deck_choice, reward, penalty, net_outcome, balance_after, now) ==
    [trial_number  |-> trial_number,
     deck_choice   |-> deck_choice,
     reward        |-> reward,
     penalty       |-> penalty,
     net_outcome   |-> net_outcome,
     balance_after |-> balance_after,
     timestamp     |-> now]

-----------------------------------------------------------------------------
(* select_deck and the batch logging it triggers.  A program state is the *)
(* record [deck_manager, session, ui, batch_log].                          *)

BATCH_LOG_INTERVAL == 100

\* the balance updated with the sign of the net outcome reversed
NewBalance_subtract(current_balance, net_outcome) ==
    current_balance - net_outcome

\* session.current_balance += net_outcome
NewBalance(current_balance, net_outcome) ==
    current_balance + net_outcome

\* the trial numbered from 0
NextTrialNumber_zero_based(trials) == Len(trials)

\* trial_number = len(session.trials) + 1
NextTrialNumber(trials) == Len(trials) + 1

\* log_batch_trials(trials_data) of the logging module: the rows are
\* handed over, or the call raises when the logging fails
log_batch_trials(logged_so_far, trials_data, log_raises) ==
    IF log_raises
    THEN Raised([error |-> "LoggingError"])
    ELSE Returned(Append(logged_so_far, trials_data))

\* batch_log_pending_trials(): hand the trials not yet logged to
\* log_batch_trials as one batch and move last_logged_trial_idx
\* (handed: the batch passed to log_batch_trials and whether that call
\* raised, if the call was made)
batch_log_pending_trials(s, log_raises) ==
    LET last_idx    == s.ui.last_logged_trial_idx
        current_idx == Len(s.session.trials)
        logged      == log_batch_trials(s.batch_log,
                                        SubSeq(s.session.trials,
                                               last_idx + 1, current_idx),
                                        log_raises)
        handed      == Some([trials_data |-> SubSeq(s.session.trials,
                                                    last_idx + 1, current_idx),
                             raised      |-> logged.raised])
    IN  IF current_idx <= last_idx
        THEN [state |-> s, ret |-> Returned(None), handed |-> None]
        ELSE IF logged.raised
        THEN [state |-> s, ret |-> logged, handed |-> handed]
        ELSE [state |-> [s EXCEPT !.batch_log = logged.value,
                                  !.ui.last_logged_trial_idx = current_idx],
              ret |-> Returned(None), handed |-> handed]

\* select_deck(deck), called at time now, log_batch_trials raising or not
select_deck(s, deck, now, log_raises) ==
    LET card == draw_card(s.deck_manager, deck)
    IN  IF card.ret.raised
        THEN [state |-> s, ret |-> card.ret, handed |-> None]
        ELSE
          LET reward      == card.ret.value.reward
              penalty     == card.ret.value.penalty
              net_outcome == card.ret.value.net_outcome
              balance     == NewBalance(s.session.current_balance, net_outcome)
              trial       == TrialResult(NextTrialNumber(s.session.trials), deck,
                                         reward, penalty, net_outcome, balance, now)
              appended    == [s EXCEPT
                                !.deck_manager = card.self,
                                !.session.current_balance = balance,
                                !.session.trials = Append(@, trial)]
              logged      == IF Len(appended.session.trials) % BATCH_LOG_INTERVAL = 0
                             THEN batch_log_pending_trials(appended, log_raises)
                             ELSE [state |-> appended, ret |-> Returned(None),
                                   handed |-> None]
              shown       == [logged.state EXCEPT
                                !.ui.last_result = Some(trial),
                                !.ui.show_result = TRUE]
              ended       == IF Len(shown.session.trials) >= shown.session.total_trials
                             THEN [shown EXCEPT
                                     !.session.end_time = Some(now),
                                     !.ui.game_end_duration =
                                         Some(now - shown.ui.game_start_timestamp),
                                     !.ui.game_ended = TRUE]
                             ELSE shown
          IN  IF logged.ret.raised
              THEN [state |-> logged.state, ret |-> logged.ret,
                    handed |-> logged.handed]
              ELSE [state |-> ended, ret |-> Returned(None),
                    handed |-> logged.handed]

-----------------------------------------------------------------------------
(* calculate_igt_score *)

RECURSIVE CountDecks(_, _)
\* for trial in session.trials: deck_counts[trial.deck_choice] += 1
CountDecks(trials, deck_counts) ==
    IF trials = << >>
    THEN deck_counts
    ELSE CountDecks(Tail(trials),
                    [deck_counts EXCEPT ![Head(trials).deck_choice] = @ + 1])

RECURSIVE Gcd(_, _)
Gcd(a, b) == IF b = 0 THEN a ELSE Gcd(b, a % b)

\* the quotient a / b of two naturals, b > 0, as the fraction in lowest terms
Quotient(a, b) == [num |-> a \div Gcd(a, b), den |-> b \div Gcd(a, b)]

\* the int 0 a guarded division defaults to
Zero == Quotient(0, 1)

ZeroDivisionError == [error |-> "ZeroDivisionError"]

\* a / b: the quotient, or ZeroDivisionError when b is 0
Divide(a, b) == IF b = 0 THEN ZeroDivisionError ELSE Quotient(a, b)

\* the guard letting a zero denominator through
Positive_or_zero(x) == x >= 0

\* the guard `x > 0` of a division by x
Positive(x) == x > 0

\* what a scorer's caller gets: the scores, or the ZeroDivisionError of one
\* of the divisions listed
ScoreOutcome(scores, quotients) ==
    IF \E i \in 1..Len(quotients) : quotients[i] = ZeroDivisionError
    THEN Raised(ZeroDivisionError)
    ELSE Returned(scores)

\* the advantageous decks taken to be B and C
Advantageous_wrong_decks(deck_counts) == deck_counts["B"] + deck_counts["C"]

\* advantageous = deck_counts['C'] + deck_counts['D']
Advantageous(deck_counts) == deck_counts["C"] + deck_counts["D"]

\* disadvantageous = deck_counts['A'] + deck_counts['B']
Disadvantageous(deck_counts) == deck_counts["A"] + deck_counts["B"]

\* calculate_igt_score(session)
calculate_igt_score(sess) ==
    LET deck_counts     == CountDecks(sess.trials, [d \in Decks |-> 0])
        advantageous    == Advantageous(deck_counts)
        disadvantageous == Disadvantageous(deck_counts)
        net_score       == advantageous - disadvantageous
        total           == Len(sess.trials)
        advantageous_ratio ==
            IF Positive(total) THEN Divide(advantageous, total) ELSE Zero
    IN  [net_score          |-> net_score,
         deck_counts        |-> deck_counts,
         advantageous_ratio |-> advantageous_ratio,
         total_trials       |-> total,
         final_balance      |-> sess.current_balance,
         profit             |-> sess.current_balance - sess.initial_balance]

-----------------------------------------------------------------------------
(* Free recall: the word catalog and the word list of a session *)

\* the words of WORD_DATABASE, by category, in catalog order (the ratings
\* of a word are copied along unchanged and read by no operation)
WORD_DATABASE ==
    [positive |-> <<"p01", "p02", "p03", "p04", "p05", "p06", "p07", "p08",
                    "p09", "p10", "p11", "p12", "p13", "p14", "p15", "p16",
                    "p17", "p18", "p19", "p20">>,
     negative |-> <<"n01", "n02", "n03", "n04", "n05", "n06", "n07", "n08",
                    "n09", "n10", "n11", "n12", "n13", "n14", "n15", "n16",
                    "n17", "n18", "n19", "n20">>,
     neutral  |-> <<"u01", "u02", "u03", "u04", "u05", "u06", "u07", "u08",
                    "u09", "u10", "u11", "u12", "u13", "u14", "u15", "u16",
                    "u17", "u18", "u19", "u20">>]

Categories == {"positive", "negative", "neutral"}

Conditions == {"mixed", "emotional", "neutral"}

\* WordStimulus(word, ..., category), presentation_order defaulting to 0
WordStimulus(word, category) ==
    [word |-> word, category |-> category, presentation_order |-> 0]

Min(a, b) == IF a <= b THEN a ELSE b

\* random.sample(population, k) in the generator state `seed`: k distinct
\* elements, here the k that follow position 7 * seed cyclically
Sample(population, k, seed) ==
    [i \in 1..k |-> population[((7 * seed + i - 1) % Len(population)) + 1]]

\* random.sample raises ValueError when k exceeds the population
SampleRaises(population, k) == k > Len(population) \/ k < 0

Reverse(s) == [i \in 1..Len(s) |-> s[Len(s) + 1 - i]]

\* random.shuffle(words) in the generator state `seed`: a permutation, here
\* a rotation by seed, of the reversed list when seed is odd
Shuffle(words, seed) ==
    LET n    == Len(words)
        base == IF seed % 2 = 1 THEN Reverse(words) ELSE words
    IN  [i \in 1..n |-> base[((i - 1 + seed) % n) + 1]]

\* the mixed split with the remainder given to the positive words
MixedSizes_remainder_to_positive(num_words) ==
    LET n_each    == num_words \div 3
        remainder == num_words % 3
    IN  << <<"positive", n_each + remainder>>, <<"negative", n_each>>,
           <<"neutral", n_each>> >>

\* the mixed split: n_each positive, n_each negative, n_each + remainder
\* neutral
MixedSizes(num_words) ==
    LET n_each    == num_words \div 3
        remainder == num_words % 3
    IN  << <<"positive", n_each>>, <<"negative", n_each>>,
           <<"neutral", n_each + remainder>> >>

\* the samples with the larger half of an emotional list drawn from the
\* positive words
SampleSizes_larger_half_positive(condition, num_words) ==
    IF condition = "emotional"
    THEN LET n_each == num_words \div 2
         IN  << <<"positive", num_words - n_each>>, <<"negative", n_each>> >>
    ELSE IF condition = "neutral"
    THEN << <<"neutral", num_words>> >>
    ELSE MixedSizes(num_words)

\* the samples create_word_list asks for: <<category, k>> in append order
SampleSizes(condition, num_words) ==
    IF condition = "emotional"
    THEN LET n_each == num_words \div 2
         IN  << <<"positive", n_each>>, <<"negative", num_words - n_each>> >>
    ELSE IF condition = "neutral"
    THEN << <<"neutral", num_words>> >>
    ELSE MixedSizes(num_words)

\* the sample size taken as asked, whatever the catalog holds
Capped_none(category, k) == k

\* min(k, len(self.word_db[category]))
Capped(category, k) == Min(k, Len(WORD_DATABASE[category]))

\* the WordStimulus objects of one sample
Stimuli(category, k, seed) ==
    LET picked == Sample(WORD_DATABASE[category], Capped(category, k), seed)
    IN  [i \in 1..Len(picked) |-> WordStimulus(picked[i], category)]

RECURSIVE Concat(_)
Concat(lists) ==
    IF lists = << >> THEN << >> ELSE Head(lists) \o Concat(Tail(lists))

\* for i, w in enumerate(words): w.presentation_order = i + 1
Numbered(words) ==
    [i \in 1..Len(words) |-> [words[i] EXCEPT !.presentation_order = i]]

\* create_word_list with the numbering done before the shuffle
create_word_list_numbered_first(condition, num_words, seed) ==
    LET sizes == SampleSizes(condition, num_words)
    IN  IF \E j \in 1..Len(sizes) :
               SampleRaises(WORD_DATABASE[sizes[j][1]],
                            Capped(sizes[j][1], sizes[j][2]))
        THEN Raised([error |-> "ValueError"])
        ELSE LET words == Concat([j \in 1..Len(sizes) |->
                                    Stimuli(sizes[j][1], sizes[j][2], seed + j - 1)])
             IN  Returned(Shuffle(Numbered(words), seed))

\* WordListManager.create_word_list(condition, num_words), the random
\* generator in state `seed`
create_word_list(condition, num_words, seed) ==
    LET sizes == SampleSizes(condition, num_words)
    IN  IF \E j \in 1..Len(sizes) :
               SampleRaises(WORD_DATABASE[sizes[j][1]],
                            Capped(sizes[j][1], sizes[j][2]))
        THEN Raised([error |-> "ValueError"])
        ELSE LET words == Concat([j \in 1..Len(sizes) |->
                                    Stimuli(sizes[j][1], sizes[j][2], seed + j - 1)])
             IN  Returned(Numbered(Shuffle(words, seed)))

-----------------------------------------------------------------------------
(* Free recall: the session, finish_recall and calculate_recall_scores *)

\* FreeRecallSession(...) with the defaults
FreeRecallSession(condition, processing_type, num_words, presented_words) ==
    [session_id         |-> "20240101_000000_1000",
     participant_id     |-> "P001",
     start_time         |-> 0,
     condition          |-> condition,
     processing_type    |-> processing_type,
     end_time           |-> None,
     num_words          |-> num_words,
     presented_words    |-> presented_words,
     recalled_words     |-> << >>,
     distractor_correct |-> 0,
     distractor_total   |-> 0]

\* RecallResponse(recalled_word, recall_order, response_time=0, ...)
RecallResponse(recalled_word, recall_order, is_correct, is_intrusion, original_position) ==
    [recalled_word     |-> recalled_word,
     recall_order      |-> recall_order,
     response_time     |-> 0,
     is_correct        |-> is_correct,
     is_intrusion      |-> is_intrusion,
     original_position |-> original_position]

\* init_session_state(): the keys of a fresh free-recall application
RecallSessionState ==
    [phase                |-> "setup",
     session              |-> None,
     current_word_idx     |-> 0,
     recalled_words_input |-> << >>]

SetMax(S) == CHOOSE x \in S : \A y \in S : y <= x
SetMin(S) == CHOOSE x \in S : \A y \in S : x <= y

\* the positions of a word in a presented list
Positions(presented_words, word) ==
    {i \in 1..Len(presented_words) : presented_words[i].word = word}

\* {w.word: w for w in session.presented_words}[word]: the last entry wins
Lookup(presented_words, word) ==
    presented_words[SetMax(Positions(presented_words, word))]

\* is_correct = word in presented_dict
InPresented(presented_words, word) == Positions(presented_words, word) # {}

\* is_intrusion = not is_correct
IsIntrusionOf(is_correct) == ~is_correct

\* the 0-based index used as the order
RecallOrder_zero_based(i) == i

\* recall_order = i + 1, i the 0-based index of enumerate
RecallOrder(i) == i + 1

\* one pass of the loop of finish_recall: word is the i-th of enumerate
Response(presented_words, word, i) ==
    LET is_correct == InPresented(presented_words, word)
        original_position ==
            IF is_correct
            THEN Some(Lookup(presented_words, word).presentation_order)
            ELSE None
    IN  RecallResponse(word, RecallOrder(i), is_correct,
                       IsIntrusionOf(is_correct), original_position)

\* finish_recall(), called at time now
finish_recall(s, now) ==
    LET inputs    == s.recalled_words_input
        responses == [n \in 1..Len(inputs) |->
                        Response(s.session[1].presented_words, inputs[n], n - 1)]
    IN  [s EXCEPT !.session[1].recalled_words = @ \o responses,
                  !.session[1].end_time = Some(now),
                  !.phase = "results"]

RECURSIVE TallyTotal(_, _)
\* for w in session.presented_words: category_total[w.category] += 1
TallyTotal(presented_words, category_total) ==
    IF presented_words = << >>
    THEN category_total
    ELSE TallyTotal(Tail(presented_words),
                    [category_total EXCEPT ![Head(presented_words).category] = @ + 1])

\* the last of the matching positions
Match_last(hits) == SetMax(hits)

\* the inner loop stops (break) at the first presented word that matches
Match(hits) == SetMin(hits)

RECURSIVE TallyRecall(_, _, _)
\* for r in correct_recalls: the first presented word equal to
\* r.recalled_word counts for its category
TallyRecall(correct_recalls, presented_words, category_recall) ==
    IF correct_recalls = << >>
    THEN category_recall
    ELSE LET hits == Positions(presented_words, Head(correct_recalls).recalled_word)
         IN  TallyRecall(
                 Tail(correct_recalls), presented_words,
                 IF hits = {}
                 THEN category_recall
                 ELSE [category_recall EXCEPT
                         ![presented_words[Match(hits)].category] = @ + 1])

\* the recency test taken to include position n_words - recency_range
SerialBucket_inclusive(original_position, n_words, primacy_range, recency_range) ==
    IF original_position <= primacy_range THEN "primacy"
    ELSE IF original_position >= n_words - recency_range THEN "recency"
    ELSE "middle"

\* the bucket of a position: primacy, recency or middle
SerialBucket(original_position, n_words, primacy_range, recency_range) ==
    IF original_position <= primacy_range THEN "primacy"
    ELSE IF original_position > n_words - recency_range THEN "recency"
    ELSE "middle"

RECURSIVE TallySerial(_, _, _, _, _)
\* for r in correct_recalls: if r.original_position: count its bucket
TallySerial(correct_recalls, n_words, primacy_range, recency_range, serial_positions) ==
    IF correct_recalls = << >>
    THEN serial_positions
    ELSE LET pos == Head(correct_recalls).original_position
         IN  TallySerial(
                 Tail(correct_recalls), n_words, primacy_range, recency_range,
                 IF pos = None \/ pos = Some(0)
                 THEN serial_positions
                 ELSE [serial_positions EXCEPT
                         ![SerialBucket(pos[1], n_words, primacy_range,
                                        recency_range)] = @ + 1])

\* the range taken to be half of the list, rounded up
SerialRange_half(n_words) == (n_words + 1) \div 2

\* the range taken to be at least one position
SerialRange_at_least_one(n_words) ==
    IF n_words < 3 THEN 1 ELSE Min(3, n_words \div 3)

\* min(3, n_words // 3)
SerialRange(n_words) == Min(3, n_words \div 3)

\* every response taken as correct
IsCorrect_all(r) == TRUE

\* the filter `if r.is_correct`
IsCorrect(r) == r.is_correct

\* the filter `if r.is_intrusion`
IsIntrusion(r) == r.is_intrusion

\* calculate_recall_scores(session)
calculate_recall_scores(sess) ==
    LET correct_recalls == SelectSeq(sess.recalled_words, IsCorrect)
        intrusions      == SelectSeq(sess.recalled_words, IsIntrusion)
        zeros           == [c \in Categories |-> 0]
        category_total  == TallyTotal(sess.presented_words, zeros)
        category_recall == TallyRecall(correct_recalls, sess.presented_words, zeros)
        n_words         == Len(sess.presented_words)
        primacy_range   == SerialRange(n_words)
        recency_range   == SerialRange(n_words)
        serial_positions ==
            TallySerial(correct_recalls, n_words, primacy_range, recency_range,
                        [primacy |-> 0, middle |-> 0, recency |-> 0])
    IN  [total_presented  |-> Len(sess.presented_words),
         total_recalled   |-> Len(sess.recalled_words),
         correct_recalls  |-> Len(correct_recalls),
         recall_rate      |->
             IF sess.presented_words # << >>
             THEN Divide(Len(correct_recalls), Len(sess.presented_words))
             ELSE Zero,
         intrusion_errors |-> Len(intrusions),
         category_recall  |-> category_recall,
         category_total   |-> category_total,
         category_rate    |->
             [k \in Categories |->
                 IF Positive(category_total[k])
                 THEN Divide(category_recall[k], category_total[k])
                 ELSE Zero],
         serial_position  |-> serial_positions,
         distractor_accuracy |->
             IF Positive(sess.distractor_total)
             THEN Divide(sess.distractor_correct, sess.distractor_total)
             ELSE Zero]

-----------------------------------------------------------------------------
(* The two-session variant: an encoding session and a recall session *)

\* init_session_state() of the encoding session
EncodingSessionState ==
    [phase            |-> "setup",
     session          |-> None,
     current_word_idx |-> 0,
     logged_end       |-> FALSE]

\* init_session_state() of the recall session
RecallPassSessionState ==
    [phase                |-> "setup",
     session              |-> None,
     recalled_words_input |-> << >>,
     logged_end           |-> FALSE]

\* SHEET_INFO: the secret key names of the sheets, in order
SHEET_INFO == <<"gsheet_b5", "gsheet_b4">>

\* neither session opened, no direct call made, no call running, nothing
\* appended to a sheet
OtherInit ==
    /\ encoding_state = EncodingSessionState
    /\ recall_pass_state = RecallPassSessionState
    /\ calls = << >>
    /\ frame = None
    /\ sheets = [name \in {SHEET_INFO[k] : k \in 1..Len(SHEET_INFO)} |-> << >>]

-----------------------------------------------------------------------------
(* The state after construction *)

Init ==
    /\ deck_manager = DeckManager
    /\ session = GameSession
    /\ ui = SessionState
    /\ batch_log = << >>
    /\ clock = 0
    /\ ret = Call("init", None, Returned(None))
    /\ drawn = [d \in Decks |-> << >>]
    /\ recall_state = RecallSessionState
    /\ recall_ret = Call("init", None, Returned(None))
    /\ OtherInit

-----------------------------------------------------------------------------
(* Direct calls on the DeckManager *)

\* the number of direct draws per deck once `deck` has been drawn again
DrawsAfter(deck) ==
    [d \in Decks |-> Len(drawn[d]) + (IF d = deck THEN 1 ELSE 0)]

\* at most MaxDraws draws of a deck, and at most one deck beyond MaxSide draws
WithinDrawBounds(deck) ==
    deck \in Decks =>
        /\ DrawsAfter(deck)[deck] <= MaxDraws
        /\ Cardinality({d \in Decks : DrawsAfter(deck)[d] > MaxSide}) <= 1

\* deck_manager.draw_card(deck), the caller keeping what it returns
DrawCard(deck) ==
    LET r == draw_card(deck_manager, deck)
    IN  /\ WithinDrawBounds(deck)
        /\ deck_manager' = r.self
        /\ ret' = Call("draw_card", deck, r.ret)
        /\ drawn' = IF r.ret.raised
                    THEN drawn
                    ELSE [drawn EXCEPT ![deck] = Append(@, r.ret.value)]
        /\ UNCHANGED <<other_vars, session, ui, batch_log, clock, recall_vars>>

NextDeck == \E deck \in DeckSymbols : DrawCard(deck)

SpecDeck == Init /\ [][NextDeck]_vars

-----------------------------------------------------------------------------
(* Direct calls on one DeckManager, reset among them *)

\* reset calls
MaxResets == 1

\* the decks drawn from: one deep into its second cycle, one a few times,
\* and an unrecognised symbol
ResetDecks == {"A", "D", "E"}

\* deck_manager.reset()
Reset ==
    /\ Len(calls) < MaxResets
    /\ deck_manager' = reset(deck_manager)
    /\ ret' = Call("reset", None, Returned(None))
    /\ calls' = Append(calls, Call("reset", None, Returned(None)))
    /\ UNCHANGED <<session, ui, batch_log, clock, drawn, recall_vars,
                   encoding_state, recall_pass_state, frame, sheets>>

NextDeckReset ==
    \/ \E deck \in ResetDecks : DrawCard(deck)
    \/ Reset

SpecDeckReset == Init /\ [][NextDeckReset]_vars

-----------------------------------------------------------------------------
(* Calls on one gambling session *)

\* the program state held by the variables
State ==
    [deck_manager |-> deck_manager, session |-> session,
     ui |-> ui, batch_log |-> batch_log]

\* select_deck(deck) on the session, log_batch_trials raising or not
SelectDeckCall(deck, log_raises) ==
    LET r == select_deck(State, deck, clock, log_raises)
    IN  /\ deck_manager' = r.state.deck_manager
        /\ session' = r.state.session
        /\ ui' = r.state.ui
        /\ batch_log' = r.state.batch_log
        /\ ret' = Call("select_deck", deck, r.ret)
        /\ UNCHANGED <<other_vars, clock, drawn, recall_vars>>

\* select_deck(deck) on a session of fewer than MaxTrials trials
SelectDeck(deck) ==
    /\ Len(session.trials) < MaxTrials
    /\ \E log_raises \in BOOLEAN : SelectDeckCall(deck, log_raises)

\* calculate_igt_score(session), the caller keeping the scores
CalculateIgtScore ==
    /\ LET scores == calculate_igt_score(session)
       IN  ret' = Call("calculate_igt_score", None,
                       ScoreOutcome(scores, <<scores.advantageous_ratio>>))
    /\ UNCHANGED <<other_vars, deck_manager, session, ui, batch_log, clock, drawn,
                   recall_vars>>

NextGame ==
    \/ \E deck \in DeckSymbols : SelectDeck(deck)
    \/ CalculateIgtScore

SpecGame == Init /\ [][NextGame]_vars

-----------------------------------------------------------------------------
(* The scorer on given trial histories *)

\* the longest arbitrary history scored
MaxLen == 4
\* the most trials per deck in a history scored deck by deck
MaxPerDeck == 4

RECURSIVE Repeat(_, _)
Repeat(x, n) == IF n = 0 THEN << >> ELSE <<x>> \o Repeat(x, n - 1)

\* the deck choices scored: every sequence of at most MaxLen choices, and
\* a A's, then b B's, then c C's, then d D's for a, b, c, d <= MaxPerDeck
ScoredChoices ==
    UNION {[1..n -> Decks] : n \in 0..MaxLen}
    \cup {Repeat("A", a) \o Repeat("B", b) \o Repeat("C", c) \o Repeat("D", d) :
            a \in 0..MaxPerDeck, b \in 0..MaxPerDeck,
            c \in 0..MaxPerDeck, d \in 0..MaxPerDeck}

RECURSIVE PlayRun(_, _)
\* select_deck on each of the choices in turn, up to the first call that
\* raises: the state reached and whether a call raised (the choices are
\* played half by half, the first half first)
PlayRun(run, choices) ==
    IF run.stopped \/ choices = << >>
    THEN run
    ELSE IF Len(choices) = 1
    THEN LET r == select_deck(run.state, choices[1], 0, FALSE)
         IN  [state |-> r.state, stopped |-> r.ret.raised]
    ELSE LET half == Len(choices) \div 2
         IN  PlayRun(PlayRun(run, SubSeq(choices, 1, half)),
                     SubSeq(choices, half + 1, Len(choices)))

\* the program state after select_deck on each of the choices in turn, up
\* to the first call that raises, the logging working
Play(s, choices) == PlayRun([state |-> s, stopped |-> FALSE], choices).state

\* a session on which the choices have been played
InitScore ==
    \E choices \in ScoredChoices :
        LET s == Play([deck_manager |-> DeckManager, session |-> GameSession,
                       ui |-> SessionState, batch_log |-> << >>], choices)
        IN  /\ deck_manager = s.deck_manager
            /\ session = s.session
            /\ ui = s.ui
            /\ batch_log = s.batch_log
            /\ clock = 0
            /\ ret = Call("init", None, Returned(None))
            /\ drawn = [d \in Decks |-> << >>]
            /\ recall_state = RecallSessionState
            /\ recall_ret = Call("init", None, Returned(None))
            /\ OtherInit

NextScore == CalculateIgtScore

SpecScore == InitScore /\ [][NextScore]_vars

-----------------------------------------------------------------------------
(* Direct calls of select_deck around the end of the game and around the *)
(* first batch logged                                                     *)

\* the calls made on a history
MaxExtra == 3

\* the lengths of the histories the calls start from
LateStarts == {total_trials - 1, BATCH_LOG_INTERVAL - 2}

\* a A's, then b B's, then C's up to a late start
LateChoices ==
    {Repeat("A", a) \o Repeat("B", b) \o Repeat("C", start - a - b) :
        <<start, a, b>> \in {x \in LateStarts \X (0..MaxPerDeck) \X (0..MaxPerDeck) :
                                x[2] + x[3] <= x[1]}}

\* a session on which a late history has been played
InitDirect ==
    \E choices \in LateChoices :
        LET s == Play([deck_manager |-> DeckManager, session |-> GameSession,
                       ui |-> SessionState, batch_log |-> << >>], choices)
        IN  /\ deck_manager = s.deck_manager
            /\ session = s.session
            /\ ui = s.ui
            /\ batch_log = s.batch_log
            /\ clock = 0
            /\ ret = Call("init", None, Returned(None))
            /\ drawn = [d \in Decks |-> << >>]
            /\ recall_state = RecallSessionState
            /\ recall_ret = Call("init", None, Returned(None))
            /\ OtherInit

\* select_deck(deck) called whatever the session's state
SelectDeckDirect(deck, log_raises) ==
    /\ \E start \in LateStarts :
           Len(session.trials) \in start..(start + MaxExtra - 1)
    /\ SelectDeckCall(deck, log_raises)

NextDirect ==
    \E deck \in DeckSymbols, log_raises \in BOOLEAN :
        SelectDeckDirect(deck, log_raises)

SpecDirect == InitDirect /\ [][NextDirect]_vars

-----------------------------------------------------------------------------
(* The recall scorer on given sessions *)

\* the generator states tried
MaxSeed == 1
\* the longest word list scored
MaxWords == 15
\* the most presented words recalled, and the most other words recalled
MaxCorrect == 5
MaxIntrusions == 2
\* the sizes tried for the guarded divisions
MaxGuardWords == 3
MaxProblems == 1

\* words of no catalog
IntrusionWords == <<"x01", "x02", "x03", "x04">>

RECURSIVE Dedup(_)
\* a list without its repeats (the recall screen ignores a repeated word)
Dedup(words) ==
    IF words = << >>
    THEN << >>
    ELSE LET front == Dedup(SubSeq(words, 1, Len(words) - 1))
             last  == words[Len(words)]
         IN  IF \E i \in 1..Len(front) : front[i] = last
             THEN front
             ELSE Append(front, last)

\* the submitted lists tried on a presented list: k presented words from a
\* position on, cyclically, and m other words, before them when the position
\* is odd and after them otherwise
RecalledInputs(presented_words, max_correct, max_intrusions) ==
    LET n == Len(presented_words)
    IN  {LET correct == Dedup([i \in 1..k |->
                           presented_words[((offset + i - 1) % n) + 1].word])
             others  == SubSeq(IntrusionWords, 1, m)
         IN  IF offset % 2 = 1 THEN others \o correct ELSE correct \o others :
           offset \in 0..(IF n = 0 THEN 0 ELSE n - 1),
           k \in 0..Min(n, max_correct),
           m \in 0..Min(max_intrusions, Len(IntrusionWords))}

\* presented lists in which a word string occurs twice, in two categories
DuplicateLists ==
    {Numbered(<<WordStimulus("p01", "positive"), WordStimulus("n01", "negative"),
                WordStimulus("p01", "neutral"), WordStimulus("u01", "neutral")>>),
     Numbered(<<WordStimulus("n01", "negative"), WordStimulus("u01", "neutral"),
                WordStimulus("u01", "positive")>>)}

\* the lists create_word_list returns for at most max_words words
CreatedLists(max_words) ==
    {create_word_list(condition, num_words, seed).value :
        condition \in Conditions, num_words \in 0..max_words,
        seed \in 0..MaxSeed}

\* the application on the recall screen: the session of a presented list,
\* the answers given to the distractor problems counted, the words
\* submitted so far
OnRecallScreen(presented_words, distractor_correct, distractor_total, inputs) ==
    [RecallSessionState EXCEPT
        !.phase = "recall",
        !.session = Some([FreeRecallSession("mixed", "none",
                                            Len(presented_words), presented_words)
                            EXCEPT !.distractor_correct = distractor_correct,
                                   !.distractor_total = distractor_total]),
        !.current_word_idx = Len(presented_words),
        !.recalled_words_input = inputs]

\* the gambling application untouched
FreshGame ==
    /\ deck_manager = DeckManager
    /\ session = GameSession
    /\ ui = SessionState
    /\ batch_log = << >>
    /\ clock = 0
    /\ ret = Call("init", None, Returned(None))
    /\ drawn = [d \in Decks |-> << >>]

\* "회상 완료": finish_recall()
FinishRecall ==
    /\ recall_state.phase = "recall"
    /\ recall_state' = finish_recall(recall_state, clock)
    /\ recall_ret' = Call("finish_recall", None, Returned(None))
    /\ UNCHANGED <<other_vars, deck_manager, session, ui, batch_log, clock, ret, drawn>>

\* the divisions of calculate_recall_scores
RecallQuotients(scores) ==
    <<scores.recall_rate, scores.category_rate["positive"],
      scores.category_rate["negative"], scores.category_rate["neutral"],
      scores.distractor_accuracy>>

\* show_results: calculate_recall_scores(session), the caller keeping the
\* scores
CalculateRecallScores ==
    /\ recall_state.phase = "results"
    /\ LET scores == calculate_recall_scores(recall_state.session[1])
       IN  recall_ret' = Call("calculate_recall_scores", None,
                              ScoreOutcome(scores, RecallQuotients(scores)))
    /\ UNCHANGED <<other_vars, deck_manager, session, ui, batch_log, clock, ret, drawn,
                   recall_state>>

InitRecallScore ==
    /\ FreshGame
    /\ \E presented_words \in CreatedLists(MaxWords) \cup DuplicateLists :
           \E inputs \in RecalledInputs(presented_words, MaxCorrect, MaxIntrusions) :
               recall_state = OnRecallScreen(presented_words, 0, 0, inputs)
    /\ recall_ret = Call("init", None, Returned(None))
    /\ OtherInit

NextRecallScore == FinishRecall \/ CalculateRecallScores

SpecRecallScore == InitRecallScore /\ [][NextRecallScore]_vars

\* short sessions, with and without words, recalls and distractor answers
InitGuards ==
    /\ FreshGame
    /\ \E presented_words \in CreatedLists(MaxGuardWords) :
           \E inputs \in RecalledInputs(presented_words, MaxGuardWords, 1) :
               \E distractor_total \in 0..MaxProblems :
                   \E distractor_correct \in 0..distractor_total :
                       recall_state = OnRecallScreen(presented_words,
                                                     distractor_correct,
                                                     distractor_total, inputs)
    /\ recall_ret = Call("init", None, Returned(None))
    /\ OtherInit

NextGuards == FinishRecall \/ CalculateRecallScores \/ CalculateIgtScore

SpecGuards == InitGuards /\ [][NextGuards]_vars

-----------------------------------------------------------------------------
(* Both scorers called repeatedly on the sessions they are given *)

MaxScorings == 3

\* a scorer that empties the trial list it has counted
igt_score_call_consuming(sess) ==
    [self |-> [sess EXCEPT !.trials = << >>],
     ret  |-> calculate_igt_score(sess)]

\* the call calculate_igt_score(session): the session object as the call
\* leaves it (the function assigns to its locals only) and the dict returned
igt_score_call(sess) ==
    [self |-> sess,
     ret  |-> calculate_igt_score(sess)]

\* the call calculate_recall_scores(session): the session object as the
\* call leaves it (the function assigns to its locals only) and the dict
\* returned
recall_scores_call(sess) ==
    [self |-> sess,
     ret  |-> calculate_recall_scores(sess)]

\* scores = calculate_igt_score(session), the caller keeping the scores
CalculateIgtScoreAgain ==
    /\ Len(calls) < MaxScorings
    /\ LET r == igt_score_call(session)
       IN  /\ session' = r.self
           /\ calls' = Append(calls,
                  Call("calculate_igt_score", None,
                       ScoreOutcome(r.ret, <<r.ret.advantageous_ratio>>)))
    /\ UNCHANGED <<deck_manager, ui, batch_log, clock, ret, drawn, recall_vars,
                   encoding_state, recall_pass_state, frame, sheets>>

\* scores = calculate_recall_scores(session), the caller keeping the scores
CalculateRecallScoresAgain ==
    /\ recall_state.phase = "results"
    /\ Len(calls) < MaxScorings
    /\ LET r == recall_scores_call(recall_state.session[1])
       IN  /\ recall_state' = [recall_state EXCEPT !.session = Some(r.self)]
           /\ calls' = Append(calls,
                  Call("calculate_recall_scores", None,
                       ScoreOutcome(r.ret, RecallQuotients(r.ret))))
    /\ UNCHANGED <<deck_manager, session, ui, batch_log, clock, ret, drawn,
                   recall_ret, encoding_state, recall_pass_state, frame, sheets>>

\* no game played, and a game with a card of every deck
PureChoices == {<< >>, <<"A", "C", "D", "B">>}

\* a short recall session next to a game of PureChoices
InitPlayedGuards ==
    /\ \E choices \in PureChoices :
           LET s == Play([deck_manager |-> DeckManager, session |-> GameSession,
                          ui |-> SessionState, batch_log |-> << >>], choices)
           IN  /\ deck_manager = s.deck_manager
               /\ session = s.session
               /\ ui = s.ui
               /\ batch_log = s.batch_log
    /\ clock = 0
    /\ ret = Call("init", None, Returned(None))
    /\ drawn = [d \in Decks |-> << >>]
    /\ \E presented_words \in CreatedLists(MaxGuardWords) :
           \E inputs \in RecalledInputs(presented_words, MaxGuardWords, 1) :
               \E distractor_total \in 0..MaxProblems :
                   \E distractor_correct \in 0..distractor_total :
                       recall_state = OnRecallScreen(presented_words,
                                                     distractor_correct,
                                                     distractor_total, inputs)
    /\ recall_ret = Call("init", None, Returned(None))
    /\ OtherInit

\* a played game and no recall session, or a recall session next to a game
InitPure == InitScore \/ InitPlayedGuards

NextPure ==
    \/ CalculateIgtScoreAgain
    \/ FinishRecall
    \/ CalculateRecallScoresAgain

SpecPure == InitPure /\ [][NextPure]_vars

-----------------------------------------------------------------------------
(* The spreadsheet exports of both tasks *)

\* f"{q:.3f}": the quotient rounded to thousandths (a tie goes to the even
\* digit: a tie is a quotient the float holds exactly), as the number of
\* thousandths printed
Format3(q) ==
    LET n     == 1000 * q.num
        floor == n \div q.den
        twice == 2 * (n % q.den)
    IN  [thousandths |->
            IF twice < q.den THEN floor
            ELSE IF twice > q.den THEN floor + 1
            ELSE IF floor % 2 = 0 THEN floor ELSE floor + 1]

\* the header row of the gambling export
header ==
    <<"session_id", "participant_id", "trial", "deck", "reward", "penalty",
      "net_outcome", "balance", "timestamp">>

\* a data row with the penalty before the reward
row_penalty_first(sess, trial) ==
    <<sess.session_id, sess.participant_id, trial.trial_number,
      trial.deck_choice, trial.penalty, trial.reward, trial.net_outcome,
      trial.balance_after, trial.timestamp>>

\* rows.append([...]) of the gambling export: the row of one trial
row(sess, trial) ==
    <<sess.session_id, sess.participant_id, trial.trial_number,
      trial.deck_choice, trial.reward, trial.penalty, trial.net_outcome,
      trial.balance_after, trial.timestamp>>

\* igt_utils.prepare_for_spreadsheet(session)
igt_prepare_for_spreadsheet(sess) ==
    <<header>> \o [i \in 1..Len(sess.trials) |-> row(sess, sess.trials[i])]

\* the header row of the recall export
headers ==
    <<"session_id", "participant_id", "condition", "processing_type",
      "start_time", "end_time",
      "total_presented", "correct_recalls", "recall_rate",
      "intrusion_errors",
      "positive_recall", "negative_recall", "neutral_recall",
      "primacy", "middle", "recency",
      "distractor_accuracy">>

\* the data row of the recall export
data(sess, scores) ==
    <<sess.session_id, sess.participant_id, sess.condition,
      sess.processing_type, sess.start_time, sess.end_time,
      scores.total_presented, scores.correct_recalls,
      Format3(scores.recall_rate),
      scores.intrusion_errors,
      scores.category_recall["positive"], scores.category_recall["negative"],
      scores.category_recall["neutral"],
      scores.serial_position["primacy"], scores.serial_position["middle"],
      scores.serial_position["recency"],
      Format3(scores.distractor_accuracy)>>

\* free_recall_utils.prepare_for_spreadsheet(session): the rows, or the
\* error of the scorer it calls first
prepare_for_spreadsheet(sess) ==
    LET scores == calculate_recall_scores(sess)
    IN  IF \E i \in 1..Len(RecallQuotients(scores)) :
               RecallQuotients(scores)[i] = ZeroDivisionError
        THEN Raised(ZeroDivisionError)
        ELSE Returned(<<headers, data(sess, scores)>>)

\* prepare_for_spreadsheet(session) of the gambling task, the caller
\* keeping the rows
IgtPrepareForSpreadsheet ==
    /\ ret' = Call("prepare_for_spreadsheet", None,
                   Returned(igt_prepare_for_spreadsheet(session)))
    /\ UNCHANGED <<other_vars, deck_manager, session, ui, batch_log, clock, drawn,
                   recall_vars>>

\* results screen of the recall task: prepare_for_spreadsheet(session) for
\* the CSV download
PrepareForSpreadsheet ==
    /\ recall_state.phase = "results"
    /\ recall_ret' = Call("prepare_for_spreadsheet", None,
                          prepare_for_spreadsheet(recall_state.session[1]))
    /\ UNCHANGED <<other_vars, deck_manager, session, ui, batch_log, clock, ret, drawn,
                   recall_state>>

NextExport ==
    \/ IgtPrepareForSpreadsheet
    \/ FinishRecall
    \/ PrepareForSpreadsheet

SpecExport == InitPure /\ [][NextExport]_vars

-----------------------------------------------------------------------------
(* Direct calls of create_word_list *)

\* the largest number of words asked for
MaxCount == 62

\* WordListManager().create_word_list(condition, num_words), the random
\* generator in state seed, the caller keeping the list
CreateWordList(condition, num_words, seed) ==
    /\ recall_ret' = Call("create_word_list",
                          [condition |-> condition, num_words |-> num_words],
                          create_word_list(condition, num_words, seed))
    /\ UNCHANGED <<other_vars, deck_manager, session, ui, batch_log, clock, ret, drawn,
                   recall_state>>

NextWords ==
    \E condition \in Conditions, num_words \in 0..MaxCount, seed \in 0..MaxSeed :
        CreateWordList(condition, num_words, seed)

SpecWords == Init /\ [][NextWords]_vars

-----------------------------------------------------------------------------
(* The free-recall application, screen by screen *)

\* the slider of the setup screen starts at 10 words
MinSetupWords == 10
\* the most words chosen on the setup screen
MaxFlowWords == 10
\* the most words submitted on the recall screen
MaxInput == 2

ProcessingTypes == {"none", "semantic", "perceptual"}

\* the phases in which main() shows the Stop button
StopShown(phase) == phase \notin {"setup", "results"}

\* the reset keeping the session object and dropping the other keys
reset_experiment_keep_session(s) == [k \in {"session"} |-> s[k]]

\* reset_experiment(): every key of st.session_state is deleted
reset_experiment(s) == [k \in {} |-> s[k]]

\* init_session_state(): every missing key gets its default
init_session_state(s) ==
    [k \in DOMAIN RecallSessionState |->
        IF k \in DOMAIN s THEN s[k] ELSE RecallSessionState[k]]

\* start_experiment(...), the random generator in state seed
start_experiment(s, condition, processing_type, num_words, seed) ==
    LET word_list == create_word_list(condition, num_words, seed).value
    IN  [s EXCEPT !.session = Some(FreeRecallSession(condition, processing_type,
                                                     num_words, word_list)),
                  !.phase = "encoding",
                  !.current_word_idx = 0]

\* advance_word() that leaves the encoding one advance too late
advance_word_one_too_many(s) ==
    LET idx == s.current_word_idx + 1
    IN  [s EXCEPT !.current_word_idx = idx,
                  !.phase = IF idx > s.session[1].num_words
                            THEN "distractor" ELSE @]

\* advance_word() that goes from the last word straight to the recall
advance_word_skipping_distractor(s) ==
    LET idx == s.current_word_idx + 1
    IN  [s EXCEPT !.current_word_idx = idx,
                  !.phase = IF idx >= s.session[1].num_words
                            THEN "recall" ELSE @]

\* advance_word()
advance_word(s) ==
    LET idx == s.current_word_idx + 1
    IN  [s EXCEPT !.current_word_idx = idx,
                  !.phase = IF idx >= s.session[1].num_words
                            THEN "distractor" ELSE @]

\* a typed text: pieces that are blanks or one word
Blank == " "

RECURSIVE StripLeft(_)
StripLeft(text) ==
    IF text # << >> /\ Head(text) = Blank THEN StripLeft(Tail(text)) ELSE text

\* word_input.strip()
Strip(text) == Reverse(StripLeft(Reverse(StripLeft(text))))

\* the "추가" button appending the word whether or not it is there already
add_word_repeating(s, word_input) ==
    IF word_input # << >> /\ Strip(word_input) # << >>
    THEN [s EXCEPT !.recalled_words_input = Append(@, Strip(word_input)[1])]
    ELSE s

\* the "추가" button of show_recall on the typed text
add_word(s, word_input) ==
    IF word_input # << >> /\ Strip(word_input) # << >>
    THEN LET word == Strip(word_input)[1]
         IN  IF \E i \in 1..Len(s.recalled_words_input) :
                    s.recalled_words_input[i] = word
             THEN s
             ELSE [s EXCEPT !.recalled_words_input = Append(@, word)]
    ELSE s

\* the texts typed on the recall screen: nothing, blanks, the first
\* presented word or a word of no catalog, bare or between blanks
TypedTexts(s) ==
    LET words == {s.session[1].presented_words[1].word, IntrusionWords[1]}
    IN  {<< >>, <<Blank>>} \cup {<<w>> : w \in words}
            \cup {<<Blank, w, Blank>> : w \in words}

\* setup screen, "실험 시작"
StartExperiment(condition, processing_type, num_words, seed) ==
    /\ recall_state.phase = "setup"
    /\ recall_state' = start_experiment(recall_state, condition,
                                        processing_type, num_words, seed)
    /\ recall_ret' = Call("start_experiment",
                          [condition |-> condition, num_words |-> num_words],
                          Returned(None))
    /\ UNCHANGED <<other_vars, deck_manager, session, ui, batch_log, clock, ret, drawn>>

\* encoding screen: a word is shown and its button or timer advances
AdvanceWord ==
    /\ recall_state.phase = "encoding"
    /\ recall_state.current_word_idx < Len(recall_state.session[1].presented_words)
    /\ recall_state' = advance_word(recall_state)
    /\ recall_ret' = Call("advance_word", None, Returned(None))
    /\ UNCHANGED <<other_vars, deck_manager, session, ui, batch_log, clock, ret, drawn>>

\* distractor screen, "확인" with a right or a wrong answer
SubmitMath(right) ==
    /\ recall_state.phase = "distractor"
    /\ recall_state.session[1].distractor_total < MaxProblems
    /\ recall_state' =
           [recall_state EXCEPT
               !.session[1].distractor_total = @ + 1,
               !.session[1].distractor_correct = IF right THEN @ + 1 ELSE @]
    /\ recall_ret' = Call("submit_math", right, Returned(None))
    /\ UNCHANGED <<other_vars, deck_manager, session, ui, batch_log, clock, ret, drawn>>

\* distractor screen, the time is up
DistractorTimeout ==
    /\ recall_state.phase = "distractor"
    /\ recall_state' = [recall_state EXCEPT !.phase = "recall",
                                            !.recalled_words_input = << >>]
    /\ recall_ret' = Call("show_distractor", None, Returned(None))
    /\ UNCHANGED <<other_vars, deck_manager, session, ui, batch_log, clock, ret, drawn>>

\* recall screen, "추가" with a typed text
AddWord(word_input) ==
    /\ recall_state.phase = "recall"
    /\ Len(recall_state.recalled_words_input) < MaxInput
    /\ recall_state' = add_word(recall_state, word_input)
    /\ recall_ret' = Call("add_word", word_input, Returned(None))
    /\ UNCHANGED <<other_vars, deck_manager, session, ui, batch_log, clock, ret, drawn>>

\* results screen, "새 실험 시작": every key deleted, then main() again
NewExperiment ==
    /\ recall_state.phase = "results"
    /\ recall_state' = init_session_state([k \in {} |-> recall_state[k]])
    /\ recall_ret' = Call("new_experiment", None, Returned(None))
    /\ UNCHANGED <<other_vars, deck_manager, session, ui, batch_log, clock, ret, drawn>>

\* sidebar, "Stop": reset_experiment(), then main() again; the phase of the
\* screen left is kept as the argument
Stop ==
    /\ StopShown(recall_state.phase)
    /\ recall_state' = init_session_state(reset_experiment(recall_state))
    /\ recall_ret' = Call("reset_experiment", recall_state.phase, Returned(None))
    /\ UNCHANGED <<other_vars, deck_manager, session, ui, batch_log, clock, ret, drawn>>

NextRecallFlow ==
    \/ \E condition \in Conditions, processing_type \in ProcessingTypes,
          num_words \in MinSetupWords..MaxFlowWords, seed \in 0..MaxSeed :
           StartExperiment(condition, processing_type, num_words, seed)
    \/ AdvanceWord
    \/ \E right \in BOOLEAN : SubmitMath(right)
    \/ DistractorTimeout
    \/ /\ recall_state.phase = "recall"
       /\ \E word_input \in TypedTexts(recall_state) : AddWord(word_input)
    \/ FinishRecall
    \/ CalculateRecallScores
    \/ NewExperiment
    \/ Stop

SpecRecallFlow == Init /\ [][NextRecallFlow]_vars

-----------------------------------------------------------------------------
(* The encoding phase from every configuration of the setup screen *)

\* the slider of the setup screen ends at 20 words
MaxSetupWords == 20

\* show_encoding(): the word on the screen, with the buttons or the timer
\* that advance; nothing if current_word_idx is beyond the list
show_encoding(s) ==
    LET session_    == s.session[1]
        current_idx == s.current_word_idx
    IN  IF current_idx < Len(session_.presented_words)
        THEN Some(session_.presented_words[current_idx + 1].word)
        ELSE None

\* encoding screen: the word is shown
ShowEncoding ==
    /\ recall_state.phase = "encoding"
    /\ recall_ret' = Call("show_encoding", recall_state.current_word_idx,
                          Returned(show_encoding(recall_state)))
    /\ UNCHANGED <<other_vars, deck_manager, session, ui, batch_log, clock, ret, drawn,
                   recall_state>>

NextEncoding ==
    \/ \E condition \in Conditions, processing_type \in ProcessingTypes,
          num_words \in MinSetupWords..MaxSetupWords, seed \in 0..MaxSeed :
           StartExperiment(condition, processing_type, num_words, seed)
    \/ ShowEncoding
    \/ AdvanceWord

\* a word on the screen is followed by its advance: the timer of the plain
\* presentation runs out, or the participant answers the judgement
SpecEncoding == Init /\ [][NextEncoding]_vars /\ WF_vars(AdvanceWord)

-----------------------------------------------------------------------------
(* The two-session variant: the fixed word list, called directly *)

MaxCalls == 4

\* num_words=15 of both sessions of the variant
FIXED_NUM_WORDS == 15

\* the hard-coded canonical list: FIXED_NUM_WORDS words, a third of each
\* category, numbered in list order
FIXED_WORD_LIST ==
    LET n_each == FIXED_NUM_WORDS \div 3
    IN  Numbered(Concat(<<Stimuli("positive", n_each, 0),
                          Stimuli("negative", n_each, 0),
                          Stimuli("neutral", n_each, 0)>>))

\* a list that is shuffled and renumbered whatever the flag
get_fixed_word_list_always_shuffled(randomize, seed) ==
    Numbered(Shuffle(FIXED_WORD_LIST, seed))

\* get_fixed_word_list(randomize), the random generator in state seed:
\* the canonical list as it stands, or shuffled and renumbered
get_fixed_word_list(randomize, seed) ==
    IF randomize
    THEN Numbered(Shuffle(FIXED_WORD_LIST, seed))
    ELSE FIXED_WORD_LIST

\* get_fixed_word_list(randomize=...), the caller keeping the list
GetFixedWordList(randomize, seed) ==
    /\ Len(calls) < MaxCalls
    /\ calls' = Append(calls, Call("get_fixed_word_list",
                                   [randomize |-> randomize],
                                   Returned(get_fixed_word_list(randomize, seed))))
    /\ UNCHANGED <<deck_manager, session, ui, batch_log, clock, ret, drawn,
                   recall_vars, encoding_state, recall_pass_state, frame, sheets>>

NextFixedList ==
    \E randomize \in BOOLEAN, seed \in 0..MaxSeed :
        GetFixedWordList(randomize, seed)

SpecFixedList == Init /\ [][NextFixedList]_vars

-----------------------------------------------------------------------------
(* The two-session variant: the encoding session and the recall session *)

\* encoding session, "시작하기" with a participant id
encoding_start(s, seed) ==
    LET word_list == get_fixed_word_list(TRUE, seed)
    IN  [s EXCEPT !.session = Some(FreeRecallSession("mixed", "none",
                                                     FIXED_NUM_WORDS, word_list)),
                  !.phase = "encoding",
                  !.current_word_idx = -1]

\* encoding session, one run of the encoding screen whose timer is due:
\* the waiting screen gives way to the first word, a word to the next one,
\* and past the last word the session is stamped and ended
encoding_step(s, now) ==
    IF s.current_word_idx = -1
    THEN [s EXCEPT !.current_word_idx = 0]
    ELSE IF s.current_word_idx >= Len(s.session[1].presented_words)
    THEN [s EXCEPT !.session[1].end_time = Some(now), !.phase = "end"]
    ELSE [s EXCEPT !.current_word_idx = @ + 1]

\* the word on the encoding screen: none on the waiting screen and past
\* the last word
encoding_shown(s) ==
    IF /\ s.phase = "encoding"
       /\ s.current_word_idx >= 0
       /\ s.current_word_idx < Len(s.session[1].presented_words)
    THEN Some(s.session[1].presented_words[s.current_word_idx + 1].word)
    ELSE None

\* recall session, recall_setup(): "시작하기" with a participant id
recall_setup(s, seed) ==
    LET word_list == get_fixed_word_list(FALSE, seed)
    IN  [s EXCEPT !.session = Some(FreeRecallSession("mixed", "none",
                                                     FIXED_NUM_WORDS, word_list)),
                  !.phase = "recall",
                  !.recalled_words_input = << >>]

\* recall session, the "추가" button of recall_phase() on the typed text
recall_phase_add(s, word_input) ==
    IF word_input # << >> /\ Strip(word_input) # << >>
    THEN LET word == Strip(word_input)[1]
         IN  IF \E i \in 1..Len(s.recalled_words_input) :
                    s.recalled_words_input[i] = word
             THEN s
             ELSE [s EXCEPT !.recalled_words_input = Append(@, word)]
    ELSE s

\* recall session, finish_recall() called at time now
recall_session_finish(s, now, logging_available) ==
    LET inputs    == s.recalled_words_input
        responses == [n \in 1..Len(inputs) |->
                        Response(s.session[1].presented_words, inputs[n], n - 1)]
    IN  [s EXCEPT !.session[1].recalled_words = @ \o responses,
                  !.session[1].end_time = Some(now),
                  !.logged_end = @ \/ logging_available,
                  !.phase = "end"]

\* the texts typed on the screen of the recall session: the first and the
\* last word of the canonical list and a word of no catalog
PassTexts ==
    {<<FIXED_WORD_LIST[1].word>>, <<FIXED_WORD_LIST[FIXED_NUM_WORDS].word>>,
     <<Blank, IntrusionWords[1], Blank>>}

EncodingStart(seed) ==
    /\ encoding_state.phase = "setup"
    /\ encoding_state' = encoding_start(encoding_state, seed)
    /\ UNCHANGED <<deck_manager, session, ui, batch_log, clock, ret, drawn,
                   recall_vars, recall_pass_state, calls, frame, sheets>>

EncodingStep ==
    /\ encoding_state.phase = "encoding"
    /\ encoding_state' = encoding_step(encoding_state, clock)
    /\ UNCHANGED <<deck_manager, session, ui, batch_log, clock, ret, drawn,
                   recall_vars, recall_pass_state, calls, frame, sheets>>

RecallSetup(seed) ==
    /\ recall_pass_state.phase = "setup"
    /\ recall_pass_state' = recall_setup(recall_pass_state, seed)
    /\ UNCHANGED <<deck_manager, session, ui, batch_log, clock, ret, drawn,
                   recall_vars, encoding_state, calls, frame, sheets>>

RecallPhaseAdd(word_input) ==
    /\ recall_pass_state.phase = "recall"
    /\ Len(recall_pass_state.recalled_words_input) < MaxInput
    /\ recall_pass_state' = recall_phase_add(recall_pass_state, word_input)
    /\ UNCHANGED <<deck_manager, session, ui, batch_log, clock, ret, drawn,
                   recall_vars, encoding_state, calls, frame, sheets>>

RecallSessionFinish(logging_available) ==
    /\ recall_pass_state.phase = "recall"
    /\ recall_pass_state' =
           recall_session_finish(recall_pass_state, clock, logging_available)
    /\ UNCHANGED <<deck_manager, session, ui, batch_log, clock, ret, drawn,
                   recall_vars, encoding_state, calls, frame, sheets>>

NextPasses ==
    \/ \E seed \in 0..MaxSeed : EncodingStart(seed)
    \/ EncodingStep
    \/ \E seed \in 0..MaxSeed : RecallSetup(seed)
    \/ \E word_input \in PassTexts : RecallPhaseAdd(word_input)
    \/ \E logging_available \in BOOLEAN : RecallSessionFinish(logging_available)

SpecPasses == Init /\ [][NextPasses]_vars

-----------------------------------------------------------------------------
(* Session ids: generate_session_id of both tasks, called directly *)

MaxIds == 3
MaxClock == 1
MaxSuffix == 1

\* the seconds of a day
SecondsPerDay == 86400

\* datetime.now().strftime("%Y%m%d"): the day of second now
Date(now) == now \div SecondsPerDay

\* datetime.now().strftime("%H%M%S"): the second of the day
TimeOfDay(now) == now % SecondsPerDay

\* random.randint(1000, 9999), the generator choosing the rnd-th value
RandInt(rnd) == 1000 + rnd

\* uuid.uuid4().hex[:6], the generator choosing the rnd-th value
Hex6(rnd) == rnd

\* igt_utils.generate_session_id() at second now: the id as its fields
\* between the underscores, "%Y%m%d_%H%M%S_" + str(random.randint(...))
igt_generate_session_id(now, rnd) ==
    <<Date(now), TimeOfDay(now), RandInt(rnd)>>

\* free_recall_utils.generate_session_id() at second now: the id as its
\* fields between the underscores, f"FR_{...%Y%m%d_%H%M%S}_{hex[:6]}"
generate_session_id(now, rnd) ==
    <<"FR", Date(now), TimeOfDay(now), Hex6(rnd)>>

IgtGenerateSessionId(rnd) ==
    /\ Len(calls) < MaxIds
    /\ calls' = Append(calls, Call("igt_utils.generate_session_id", None,
                                   Returned(igt_generate_session_id(clock, rnd))))
    /\ UNCHANGED <<deck_manager, session, ui, batch_log, clock, ret, drawn,
                   recall_vars, encoding_state, recall_pass_state, frame, sheets>>

GenerateSessionId(rnd) ==
    /\ Len(calls) < MaxIds
    /\ calls' = Append(calls, Call("free_recall_utils.generate_session_id", None,
                                   Returned(generate_session_id(clock, rnd))))
    /\ UNCHANGED <<deck_manager, session, ui, batch_log, clock, ret, drawn,
                   recall_vars, encoding_state, recall_pass_state, frame, sheets>>

\* a second passes
Tick ==
    /\ clock < MaxClock
    /\ clock' = clock + 1
    /\ UNCHANGED <<deck_manager, session, ui, batch_log, ret, drawn,
                   recall_vars, other_vars>>

NextIds ==
    \/ \E rnd \in 0..MaxSuffix : IgtGenerateSessionId(rnd)
    \/ \E rnd \in 0..MaxSuffix : GenerateSessionId(rnd)
    \/ Tick

SpecIds == Init /\ [][NextIds]_vars

-----------------------------------------------------------------------------
(* The gambling application: main() and the screens it dispatches to *)

WaitStep == 300
MaxHandOvers == 3

\* MIN_GAME_DURATION of main()
MIN_GAME_DURATION == 600

\* the deck buttons pressed
UIDecks == {"A", "C"}

\* init_session_state() on an empty st.session_state
InitialSessionState ==
    [game_started           |-> FALSE,
     game_ended             |-> FALSE,
     last_result            |-> None,
     show_result            |-> FALSE,
     show_participant_input |-> FALSE,
     logged_end             |-> FALSE,
     game_start_timestamp   |-> None,
     last_logged_trial_idx  |-> 0,
     game_end_duration      |-> None]

\* start_game(participant_id), called at time now
start_game(s, now) ==
    [s EXCEPT !.ui.game_started = TRUE,
              !.ui.game_ended = FALSE,
              !.deck_manager = DeckManager,
              !.session = [GameSession EXCEPT !.start_time = now],
              !.ui.last_result = None,
              !.ui.show_result = FALSE,
              !.ui.game_start_timestamp = now,
              !.ui.last_logged_trial_idx = 0,
              !.ui.show_participant_input = FALSE]

\* log_session_end(...): the collaborator returns or raises
log_session_end(end_raises) ==
    IF end_raises THEN Raised([error |-> "LoggingError"]) ELSE Returned(None)

\* a results screen that stamps end_time again, at time now
display_results_restamping(s, now, log_raises, end_raises) ==
    [state  |-> [s EXCEPT !.session.end_time = Some(now)],
     ret    |-> Returned(None),
     handed |-> None,
     ended  |-> None]

\* display_results(), called at time now: the scores, then, once per
\* session, the pending trials and the session end handed to the logging
\* collaborator (ended: the outcome of the log_session_end call, if the
\* call was made)
display_results(s, now, log_raises, end_raises) ==
    LET scores == calculate_igt_score(s.session)
        logged == batch_log_pending_trials(s, log_raises)
        ended  == log_session_end(end_raises)
    IN  IF s.ui.logged_end
        THEN [state |-> s, ret |-> Returned(None), handed |-> None,
              ended |-> None]
        ELSE IF logged.ret.raised
        THEN [state |-> logged.state, ret |-> logged.ret,
              handed |-> logged.handed, ended |-> None]
        ELSE IF ended.raised
        THEN [state |-> logged.state, ret |-> ended,
              handed |-> logged.handed, ended |-> Some(ended)]
        ELSE [state  |-> [logged.state EXCEPT !.ui.logged_end = TRUE],
              ret    |-> Returned(None),
              handed |-> logged.handed,
              ended  |-> Some(ended)]

\* the calls with one more hand-over, if one was made
WithHandOver(handed) ==
    IF handed = None
    THEN calls
    ELSE Append(calls, Call("log_batch_trials", handed[1].trials_data,
                            IF handed[1].raised
                            THEN Raised([error |-> "LoggingError"])
                            ELSE Returned(None)))

\* the variables take the program state a call returns
Becomes(r, op, arg) ==
    /\ deck_manager' = r.state.deck_manager
    /\ session' = r.state.session
    /\ ui' = r.state.ui
    /\ batch_log' = r.state.batch_log
    /\ ret' = Call(op, arg, r.ret)
    /\ calls' = WithHandOver(r.handed)

\* the application before its first run
InitUI ==
    /\ deck_manager = None
    /\ session = None
    /\ ui = InitialSessionState
    /\ batch_log = << >>
    /\ clock = 0
    /\ ret = Call("init", None, Returned(None))
    /\ drawn = [d \in Decks |-> << >>]
    /\ recall_state = RecallSessionState
    /\ recall_ret = Call("init", None, Returned(None))
    /\ OtherInit

\* instructions screen, "시작하기": the participant input is shown
ShowParticipantInput ==
    /\ ~ui.game_started
    /\ ~ui.show_participant_input
    /\ ui' = [ui EXCEPT !.show_participant_input = TRUE]
    /\ ret' = Call("show_instructions", None, Returned(None))
    /\ UNCHANGED <<deck_manager, session, batch_log, clock, drawn, recall_vars,
                   other_vars>>

\* participant input, "게임 시작" with an id that is not blank
StartGame ==
    /\ ~ui.game_started
    /\ ui.show_participant_input
    /\ Becomes([state |-> start_game(State, clock), ret |-> Returned(None),
                handed |-> None], "start_game", None)
    /\ UNCHANGED <<clock, drawn, recall_vars, encoding_state, recall_pass_state, frame, sheets>>

\* game screen, a deck button: select_deck(deck)
PressDeck(deck, log_raises) ==
    /\ ui.game_started
    /\ ~ui.game_ended
    /\ Becomes(select_deck(State, deck, clock, log_raises), "select_deck", deck)
    /\ UNCHANGED <<clock, drawn, recall_vars, encoding_state, recall_pass_state, frame, sheets>>

\* the game is over and MIN_GAME_DURATION has passed: display_results()
DisplayResults(log_raises, end_raises) ==
    /\ ui.game_started
    /\ ui.game_ended
    /\ clock - ui.game_start_timestamp >= MIN_GAME_DURATION
    /\ Len(calls) < MaxHandOvers
    /\ Becomes(display_results(State, clock, log_raises, end_raises),
               "display_results", None)
    /\ UNCHANGED <<clock, drawn, recall_vars, encoding_state, recall_pass_state, frame, sheets>>

\* time passes before the game and on the wait and results screens
Wait ==
    /\ ~ui.game_started \/ ui.game_ended
    /\ clock < 2 * MIN_GAME_DURATION
    /\ clock' = clock + WaitStep
    /\ UNCHANGED <<deck_manager, session, ui, batch_log, ret, drawn,
                   recall_vars, other_vars>>

NextUI ==
    \/ ShowParticipantInput
    \/ StartGame
    \/ \E deck \in UIDecks, log_raises \in BOOLEAN : PressDeck(deck, log_raises)
    \/ \E log_raises \in BOOLEAN, end_raises \in BOOLEAN :
           DisplayResults(log_raises, end_raises)
    \/ Wait

SpecUI == InitUI /\ [][NextUI]_vars

-----------------------------------------------------------------------------
(* select_deck and display_results called in any order on one session *)

\* select_deck(deck) called whatever the session's state, the hand-over
\* it makes recorded
SelectDeckLogged(deck, log_raises) ==
    /\ \E start \in LateStarts :
           Len(session.trials) \in start..(start + MaxExtra - 1)
    /\ Len(calls) < MaxHandOvers
    /\ Becomes(select_deck(State, deck, clock, log_raises), "select_deck", deck)
    /\ UNCHANGED <<clock, drawn, recall_vars, encoding_state, recall_pass_state, frame, sheets>>

\* display_results() called whatever the session's state, the hand-over it
\* makes recorded
DisplayResultsDirect(log_raises, end_raises) ==
    /\ Len(calls) < MaxHandOvers
    /\ Becomes(display_results(State, clock, log_raises, end_raises),
               "display_results", None)
    /\ UNCHANGED <<clock, drawn, recall_vars, encoding_state, recall_pass_state, frame, sheets>>

NextLogging ==
    \/ \E deck \in UIDecks, log_raises \in BOOLEAN :
           SelectDeckLogged(deck, log_raises)
    \/ \E log_raises \in BOOLEAN, end_raises \in BOOLEAN :
           DisplayResultsDirect(log_raises, end_raises)

SpecLogging == InitDirect /\ [][NextLogging]_vars

-----------------------------------------------------------------------------
(* batch_log_pending_trials run statement by statement while select_deck   *)
(* calls of the live session append trials                                 *)

\* select_deck calls that may append while batches are logged
MaxAppends == 4

\* the positions of a batch_log_pending_trials call: before
\* len(session.trials) is read, before the rows are built, before
\* log_batch_trials is called, before last_logged_trial_idx is stored,
\* and after the call has returned or raised
Running == {"len", "build", "log", "store"}

\* a call is running
IsRunning == frame # None /\ frame[1].pc \in Running

\* the call begins: session and last_idx are read (len_at_entry: the
\* length of session.trials at that moment, kept for the properties)
batch_enter(s) ==
    [pc           |-> "len",
     last_idx     |-> s.ui.last_logged_trial_idx,
     current_idx  |-> 0,
     trials_data  |-> << >>,
     len_at_entry |-> Len(s.session.trials)]

\* current_idx = len(session.trials); nothing to do if current_idx <= last_idx
batch_read_len(s, f) ==
    LET current_idx == Len(s.session.trials)
    IN  IF current_idx <= f.last_idx
        THEN [f EXCEPT !.current_idx = current_idx, !.pc = "done"]
        ELSE [f EXCEPT !.current_idx = current_idx, !.pc = "build"]

\* the rows of session.trials[last_idx:current_idx]
batch_build(s, f) ==
    [f EXCEPT !.trials_data = SubSeq(s.session.trials, f.last_idx + 1,
                                     Min(f.current_idx, Len(s.session.trials))),
              !.pc = "log"]

\* the index stored is the length of session.trials at the time of storing
batch_store_live_length(s, f) ==
    [s EXCEPT !.ui.last_logged_trial_idx = Len(s.session.trials)]

\* st.session_state.last_logged_trial_idx = current_idx
batch_store(s, f) ==
    [s EXCEPT !.ui.last_logged_trial_idx = f.current_idx]

\* the call is entered
BatchEnter ==
    /\ ~IsRunning
    /\ frame' = Some(batch_enter(State))
    /\ UNCHANGED <<deck_manager, session, ui, batch_log, clock, ret, drawn,
                   recall_vars, encoding_state, recall_pass_state, calls, sheets>>

\* len(session.trials) is read and compared with last_idx
BatchReadLen ==
    /\ IsRunning /\ frame[1].pc = "len"
    /\ frame' = Some(batch_read_len(State, frame[1]))
    /\ ret' = IF frame'[1].pc = "done"
              THEN Call("batch_log_pending_trials", None, Returned(None))
              ELSE ret
    /\ UNCHANGED <<deck_manager, session, ui, batch_log, clock, drawn,
                   recall_vars, encoding_state, recall_pass_state, calls, sheets>>

\* the rows are built from the slice
BatchBuild ==
    /\ IsRunning /\ frame[1].pc = "build"
    /\ frame' = Some(batch_build(State, frame[1]))
    /\ UNCHANGED <<deck_manager, session, ui, batch_log, clock, ret, drawn,
                   recall_vars, encoding_state, recall_pass_state, calls, sheets>>

\* log_batch_trials(trials_data) returns or raises
BatchLog(log_raises) ==
    /\ IsRunning /\ frame[1].pc = "log"
    /\ LET logged == log_batch_trials(batch_log, frame[1].trials_data, log_raises)
       IN  IF logged.raised
           THEN /\ frame' = Some([frame[1] EXCEPT !.pc = "raised"])
                /\ ret' = Call("batch_log_pending_trials", None, logged)
                /\ UNCHANGED batch_log
           ELSE /\ frame' = Some([frame[1] EXCEPT !.pc = "store"])
                /\ batch_log' = logged.value
                /\ UNCHANGED ret
    /\ UNCHANGED <<deck_manager, session, ui, clock, drawn,
                   recall_vars, encoding_state, recall_pass_state, calls, sheets>>

\* last_logged_trial_idx is stored and the call returns
BatchStore ==
    /\ IsRunning /\ frame[1].pc = "store"
    /\ ui' = batch_store(State, frame[1]).ui
    /\ frame' = Some([frame[1] EXCEPT !.pc = "done"])
    /\ ret' = Call("batch_log_pending_trials", None, Returned(None))
    /\ UNCHANGED <<deck_manager, session, batch_log, clock, drawn,
                   recall_vars, encoding_state, recall_pass_state, calls, sheets>>

\* select_deck(deck) of the live session, at any position of the call
SelectDeckMeanwhile(deck) ==
    /\ Len(session.trials) < MaxAppends
    /\ SelectDeckCall(deck, FALSE)

NextConcurrent ==
    \/ BatchEnter
    \/ BatchReadLen
    \/ BatchBuild
    \/ \E log_raises \in BOOLEAN : BatchLog(log_raises)
    \/ BatchStore
    \/ \E deck \in UIDecks : SelectDeckMeanwhile(deck)

SpecConcurrent == Init /\ [][NextConcurrent]_vars

-----------------------------------------------------------------------------
(* The end of a session: the results screen of a finished game and the     *)
(* finish button of the recall session, executed again and again           *)

\* executions of the results screen and of finish_recall that reach the
\* logging collaborator
MaxEndCalls == 3

\* the games played to the end
EndChoices == {Repeat("A", total_trials), Repeat("C", total_trials),
               Repeat("A", 3) \o Repeat("C", total_trials - 3)}

\* a finished game whose minimum duration has passed, no recall session yet
InitEnded ==
    /\ \E choices \in EndChoices :
           LET s == Play([deck_manager |-> DeckManager, session |-> GameSession,
                          ui |-> SessionState, batch_log |-> << >>], choices)
           IN  /\ deck_manager = s.deck_manager
               /\ session = s.session
               /\ ui = s.ui
               /\ batch_log = s.batch_log
    /\ clock = MIN_GAME_DURATION
    /\ ret = Call("init", None, Returned(None))
    /\ drawn = [d \in Decks |-> << >>]
    /\ recall_state = RecallSessionState
    /\ recall_ret = Call("init", None, Returned(None))
    /\ OtherInit

\* gsheet_log_event(text, user_id, event_type) of the logging module: the
\* event is written, or the call raises
gsheet_log_event(event_raises) ==
    IF event_raises THEN Raised([error |-> "LoggingError"]) ELSE Returned(None)

\* recall session, finish_recall() called at time now: the responses, the
\* end time, then, once per session and if the logging module was
\* imported, the RecallEnd event (event: the outcome of the
\* gsheet_log_event call, if the call was made)
recall_finish_recall(s, now, logging_available, event_raises) ==
    LET finished == recall_session_finish(s, now, logging_available)
        logs     == logging_available /\ ~s.logged_end
        event    == gsheet_log_event(event_raises)
    IN  IF logs /\ event.raised
        THEN [state |-> [finished EXCEPT !.logged_end = s.logged_end,
                                         !.phase = s.phase],
              ret   |-> event,
              event |-> Some(event)]
        ELSE [state |-> finished,
              ret   |-> Returned(None),
              event |-> IF logs THEN Some(event) ELSE None]

\* the calls with the hand-over and the session-end call of a results
\* screen, if they were made
WithSessionEnd(r) ==
    IF r.ended = None
    THEN WithHandOver(r.handed)
    ELSE Append(WithHandOver(r.handed),
                Call("log_session_end", None, r.ended[1]))

\* main() on a finished game whose minimum duration has passed:
\* display_results()
DisplayResultsAgain(log_raises, end_raises) ==
    /\ ui.game_started
    /\ ui.game_ended
    /\ clock - ui.game_start_timestamp >= MIN_GAME_DURATION
    /\ Len(calls) < MaxEndCalls
    /\ LET r == display_results(State, clock, log_raises, end_raises)
       IN  /\ deck_manager' = r.state.deck_manager
           /\ session' = r.state.session
           /\ ui' = r.state.ui
           /\ batch_log' = r.state.batch_log
           /\ ret' = Call("display_results", None, r.ret)
           /\ calls' = WithSessionEnd(r)
    /\ UNCHANGED <<clock, drawn, recall_vars, encoding_state, recall_pass_state, frame, sheets>>

\* recall screen, "회상 완료": finish_recall()
FinishRecallAgain(logging_available, event_raises) ==
    /\ recall_pass_state.phase = "recall"
    /\ Len(calls) < MaxEndCalls
    /\ LET r == recall_finish_recall(recall_pass_state, clock,
                                     logging_available, event_raises)
       IN  /\ recall_pass_state' = r.state
           /\ recall_ret' = Call("recall_finish_recall", None, r.ret)
           /\ calls' = IF r.event = None
                       THEN calls
                       ELSE Append(calls, Call("gsheet_log_event", "RecallEnd",
                                               r.event[1]))
    /\ UNCHANGED <<deck_manager, session, ui, batch_log, clock, ret, drawn,
                   recall_state, encoding_state, frame, sheets>>

NextSessionEnd ==
    \/ \E log_raises \in BOOLEAN, end_raises \in BOOLEAN :
           DisplayResultsAgain(log_raises, end_raises)
    \/ \E seed \in 0..MaxSeed : RecallSetup(seed)
    \/ \E word_input \in PassTexts : RecallPhaseAdd(word_input)
    \/ \E logging_available \in BOOLEAN, event_raises \in BOOLEAN :
           FinishRecallAgain(logging_available, event_raises)

SpecSessionEnd == InitEnded /\ [][NextSessionEnd]_vars

-----------------------------------------------------------------------------
(* Word submissions on the recall screens of the free-recall application   *)
(* and of the recall session                                               *)

\* the texts typed on the screen of the recall session: those of PassTexts,
\* nothing, blanks, and a listed word after a blank
SubmittedTexts ==
    PassTexts \cup {<< >>, <<Blank>>, <<Blank, FIXED_WORD_LIST[1].word>>}

NextSubmissions ==
    \/ NextRecallFlow
    \/ \E seed \in 0..MaxSeed : RecallSetup(seed)
    \/ \E word_input \in SubmittedTexts : RecallPhaseAdd(word_input)
    \/ \E logging_available \in BOOLEAN : RecallSessionFinish(logging_available)

SpecSubmissions == Init /\ [][NextSubmissions]_vars

-----------------------------------------------------------------------------
(* gsheet_log_batch called directly *)

\* gsheet_log_batch calls
MaxBatches == 2

\* what happens to a sheet when it is tried: init_sheet raises,
\* append_rows raises without appending, or the rows are appended
SheetOutcomes == {"init_sheet raises", "append_rows raises", "appended"}

\* the loop going on to the next sheet after a success
AfterAppend_no_break(idx) == idx + 1

\* break: the loop is left
AfterAppend(idx) == Len(SHEET_INFO) + 1

RECURSIVE TrySheets(_, _, _, _)
\* for idx, (secret_key, sheet_url) in enumerate(SHEET_INFO), from the sheet
\* numbered idx (from 1); run holds the sheets, the sheets tried so far and
\* the st.error messages shown
TrySheets(idx, run, rows, outcomes) ==
    IF idx > Len(SHEET_INFO)
    THEN run
    ELSE LET secret_key == SHEET_INFO[idx]
             tried      == Append(run.tried, secret_key)
         IN  IF outcomes[idx] = "appended"
             THEN TrySheets(AfterAppend(idx),
                            [run EXCEPT !.sheets[secret_key] = @ \o rows,
                                        !.tried = tried],
                            rows, outcomes)
             ELSE TrySheets(idx + 1,
                            [run EXCEPT !.tried = tried,
                                        !.errors = IF idx = Len(SHEET_INFO)
                                                   THEN @ + 1 ELSE @],
                            rows, outcomes)

\* gsheet_log_batch(rows), the sheets behaving as outcomes says
gsheet_log_batch(all_sheets, rows, gspread_available, outcomes) ==
    LET run == [sheets |-> all_sheets, tried |-> << >>, errors |-> 0]
    IN  IF ~gspread_available \/ rows = << >>
        THEN run
        ELSE TrySheets(1, run, rows, outcomes)

\* the batches passed: none, one row, two rows
Batches == {<< >>, <<"row 1">>, <<"row 2", "row 3">>}

\* gsheet_log_batch(rows) called
GsheetLogBatch(rows, gspread_available, outcomes) ==
    /\ Len(calls) < MaxBatches
    /\ LET run == gsheet_log_batch(sheets, rows, gspread_available, outcomes)
           call == Call("gsheet_log_batch",
                        [rows |-> rows, gspread_available |-> gspread_available,
                         outcomes |-> outcomes],
                        Returned([tried |-> run.tried, errors |-> run.errors]))
       IN  /\ sheets' = run.sheets
           /\ ret' = call
           /\ calls' = Append(calls, call)
    /\ UNCHANGED <<deck_manager, session, ui, batch_log, clock, drawn,
                   recall_vars, encoding_state, recall_pass_state, frame>>

NextSheets ==
    \E rows \in Batches, gspread_available \in BOOLEAN,
       outcomes \in [1..Len(SHEET_INFO) -> SheetOutcomes] :
        GsheetLogBatch(rows, gspread_available, outcomes)

SpecSheets == Init /\ [][NextSheets]_vars

-----------------------------------------------------------------------------
(* main() of the gambling application as the clock runs: the game, then    *)
(* the wait screen until the minimum duration has passed, then the results *)

\* main() that shows the results as soon as the game has ended
main_results_at_once(s, now) ==
    IF ~s.ui.game_started THEN "show_instructions"
    ELSE IF s.ui.game_ended THEN "display_results"
    ELSE "display_decks"

\* main(), executed at time now: the screen it shows
main(s, now) ==
    IF ~s.ui.game_started
    THEN "show_instructions"
    ELSE IF s.ui.game_ended
    THEN LET elapsed == now - s.ui.game_start_timestamp
         IN  IF elapsed < MIN_GAME_DURATION
             THEN "display_wait_screen"
             ELSE "display_results"
    ELSE "display_decks"

\* the game is on and time passes before the last deck button (the gate
\* reads the time of the start and the time of the run, not the times of
\* the earlier buttons)
TimePasses ==
    /\ main(State, clock) = "display_decks"
    /\ Len(session.trials) = session.total_trials - 1
    /\ clock - ui.game_start_timestamp < MIN_GAME_DURATION
    /\ clock' = clock + WaitStep
    /\ UNCHANGED <<deck_manager, session, ui, batch_log, ret, drawn,
                   recall_vars, other_vars>>

\* display_wait_screen(remaining_seconds): the remaining time is shown, the
\* script sleeps and runs again
DisplayWaitScreen ==
    /\ main(State, clock) = "display_wait_screen"
    /\ clock' = clock + WaitStep
    /\ ret' = Call("display_wait_screen",
                   MIN_GAME_DURATION - (clock - ui.game_start_timestamp),
                   Returned(None))
    /\ UNCHANGED <<deck_manager, session, ui, batch_log, drawn,
                   recall_vars, other_vars>>

\* display_results(), when main() comes to it
DisplayResultsShown(log_raises, end_raises) ==
    /\ main(State, clock) = "display_results"
    /\ Len(calls) < MaxHandOvers
    /\ Becomes(display_results(State, clock, log_raises, end_raises),
               "display_results", None)
    /\ UNCHANGED <<clock, drawn, recall_vars, encoding_state, recall_pass_state, frame, sheets>>

NextGate ==
    \/ ShowParticipantInput
    \/ StartGame
    \/ \E deck \in UIDecks, log_raises \in BOOLEAN : PressDeck(deck, log_raises)
    \/ TimePasses
    \/ DisplayWaitScreen
    \/ \E log_raises \in BOOLEAN, end_raises \in BOOLEAN :
           DisplayResultsShown(log_raises, end_raises)

\* the wait screen runs the script again after its sleep, and the script
\* that has come to the results runs display_results
SpecGate ==
    /\ InitUI
    /\ [][NextGate]_vars
    /\ WF_vars(DisplayWaitScreen)
    /\ WF_vars(\E log_raises \in BOOLEAN, end_raises \in BOOLEAN :
                   DisplayResultsShown(log_raises, end_raises))

-----------------------------------------------------------------------------
(* Properties of the deck scheduler, checked under SpecDeck *)

RECURSIVE SumPenalty(_, _, _)
\* the penalties of the draws first..last of a deck's history, summed
SumPenalty(history, first, last) ==
    IF first > last THEN 0
    ELSE history[first].penalty + SumPenalty(history, first + 1, last)

RECURSIVE SumNet(_, _, _)
\* the net outcomes of the entries first..last of a history, summed
SumNet(history, first, last) ==
    IF first > last THEN 0
    ELSE history[first].net_outcome + SumNet(history, first + 1, last)

\* the draws first..last of a history that carry a loss
Losses(history, first, last) ==
    {i \in first..last : history[i].penalty # 0}

\* C1 as stated: the penalties of the first 40 draws of a deck sum to 1250
\* for A and B and to 250 for C and D.
C1_CycleTotalAsStated ==
    \A d \in Decks :
        Len(drawn[d]) >= 40 =>
            SumPenalty(drawn[d], 1, 40) =
                [A |-> 1250, B |-> 1250, C |-> 250, D |-> 250][d]

\* C1 amended: the penalties of the first 40 draws of a deck, from a fresh
\* DeckManager, sum to 5000 for A and B and to 1000 for C and D (four blocks
\* of ten cards at 1250, respectively 250, each).
C1_CycleTotal ==
    \A d \in Decks :
        Len(drawn[d]) >= 40 =>
            SumPenalty(drawn[d], 1, 40) =
                [A |-> 5000, B |-> 5000, C |-> 1000, D |-> 1000][d]

\* a deck drawn through its whole cycle, another deck drawn in between
C1_Witness ==
    /\ Len(drawn["A"]) = 40
    /\ Len(drawn["D"]) = 1
    /\ SumPenalty(drawn["A"], 1, 40) = 5000

\* C2: every aligned block of ten draws of a deck has penalty sum 1250 (A, B)
\* or 250 (C, D), nets -250 (A, B) or +250 (C, D), and carries 5 losses on A
\* and C and 1 loss on B and D.
C2_BlockTotals ==
    \A d \in Decks : \A b \in 0..3 :
        Len(drawn[d]) >= 10 * b + 10 =>
            LET first == 10 * b + 1
                last  == 10 * b + 10
            IN  /\ SumPenalty(drawn[d], first, last) =
                       [A |-> 1250, B |-> 1250, C |-> 250, D |-> 250][d]
                /\ SumNet(drawn[d], first, last) =
                       [A |-> -250, B |-> -250, C |-> 250, D |-> 250][d]
                /\ Cardinality(Losses(drawn[d], first, last)) =
                       [A |-> 5, B |-> 1, C |-> 5, D |-> 1][d]

\* the four blocks of deck C drawn
C2_Witness ==
    /\ Len(drawn["C"]) >= 40
    /\ Cardinality(Losses(drawn["C"], 31, 40)) = 5

\* C3: the cursors start at 0; a draw from deck d returns the deck's reward
\* constant, the penalty under d's cursor before the call and their
\* difference, and moves d's cursor one position on modulo 40, inside 0..39.
C3_DrawContract ==
    /\ \A d \in Decks : deck_manager.deck_indices[d] = 0
    /\ [][\A d \in Decks :
            Len(drawn'[d]) = Len(drawn[d]) + 1 =>
                LET cursor  == deck_manager.deck_indices[d]
                    reward  == [A |-> 100, B |-> 100, C |-> 50, D |-> 50][d]
                    penalty == penalty_schedules[d][cursor + 1]
                IN  /\ ret'.op = "draw_card" /\ ret'.arg = d /\ ~ret'.raised
                    /\ ret'.value = [reward |-> reward, penalty |-> penalty,
                                     net_outcome |-> reward - penalty]
                    /\ drawn'[d][Len(drawn'[d])] = ret'.value
                    /\ deck_manager'.deck_indices[d] = (cursor + 1) % 40
                    /\ deck_manager'.deck_indices[d] \in 0..39
         ]_vars

\* past the wrap of the cursor, a draw with a loss larger than the reward
C3_Witness ==
    /\ ret.op = "draw_card"
    /\ ret.arg = "A"
    /\ ~ret.raised
    /\ ret.value.net_outcome = -50
    /\ Len(drawn["A"]) = 43
    /\ deck_manager.deck_indices["A"] = 3

\* C4: the (n+40)-th draw from a deck returns what the n-th draw returned.
C4_Period40 ==
    \A d \in Decks : \A n \in 1..Len(drawn[d]) :
        n + 40 <= Len(drawn[d]) => drawn[d][n + 40] = drawn[d][n]

\* draws 41 and 42 of deck A made
C4_Witness ==
    /\ Len(drawn["A"]) >= 42
    /\ drawn["A"][41] = drawn["A"][1]

\* the card a deck's k-th draw returns, from the deck and k alone
KthCard(d, k) ==
    LET reward  == rewards[d]
        penalty == penalty_schedules[d][((k - 1) % 40) + 1]
    IN  [reward |-> reward, penalty |-> penalty, net_outcome |-> reward - penalty]

\* C5: a draw from one deck leaves the cursor and the counter of every other
\* deck unchanged, and the k-th draw from deck d returns a card fixed by d
\* and k, whatever draws from other decks came before it.
C5_Independent ==
    /\ [](\A d \in Decks : \A k \in 1..Len(drawn[d]) :
            drawn[d][k] = KthCard(d, k))
    /\ [][\A e \in Decks :
            Len(drawn'[e]) > Len(drawn[e]) =>
                \A d \in Decks \ {e} :
                    /\ deck_manager'.deck_indices[d] = deck_manager.deck_indices[d]
                    /\ deck_manager'.deck_counts[d] = deck_manager.deck_counts[d]
                    /\ drawn'[d] = drawn[d]
         ]_vars

\* every deck drawn, one of them past the end of its cycle
C5_Witness ==
    /\ Len(drawn["C"]) = 43
    /\ Len(drawn["A"]) = 2
    /\ Len(drawn["B"]) = 1
    /\ Len(drawn["D"]) = 2
    /\ deck_manager.deck_indices = [A |-> 2, B |-> 1, C |-> 3, D |-> 2]

\* C6: a draw with a symbol outside {A, B, C, D} raises ValueError, returns
\* no triple, and leaves every cursor and every counter unchanged.
C6_InvalidDeck ==
    [][(ret'.op = "draw_card" /\ ret'.arg \notin Decks) =>
            /\ ret'.raised
            /\ ret'.value.error = "ValueError"
            /\ deck_manager' = deck_manager
            /\ drawn' = drawn
      ]_vars

\* an unrecognised symbol refused after cards have been drawn
C6_Witness ==
    /\ ret.op = "draw_card"
    /\ ret.arg = "E"
    /\ ret.raised
    /\ deck_manager.deck_counts["A"] = 2
    /\ deck_manager.deck_indices["B"] = 1

-----------------------------------------------------------------------------
(* Properties of the session and the scorer *)

\* the trials of a history that chose deck d
Choosing(trials, d) == {i \in 1..Len(trials) : trials[i].deck_choice = d}

\* the scores returned by the most recent call, a calculate_igt_score call
Scored == ret.op = "calculate_igt_score" /\ ~ret.raised

\* C7: balance_after is a running sum of net_outcome starting from the
\* initial balance 2000, current_balance is the last balance_after, and the
\* profit reported by calculate_igt_score (final_balance - initial_balance)
\* is the sum of all net outcomes.  Checked under SpecGame.
C7_RunningBalance ==
    LET trials == session.trials
    IN  /\ session.initial_balance = 2000
        /\ \A n \in 1..Len(trials) :
              trials[n].balance_after =
                  (IF n = 1 THEN session.initial_balance
                            ELSE trials[n - 1].balance_after)
                  + trials[n].net_outcome
        /\ Len(trials) > 0 =>
              session.current_balance = trials[Len(trials)].balance_after
        /\ Scored =>
              /\ ret.value.profit = SumNet(trials, 1, Len(trials))
              /\ ret.value.final_balance - session.initial_balance =
                     SumNet(trials, 1, Len(trials))

\* a session with gains and losses on two decks, scored
C7_Witness ==
    /\ Scored
    /\ Len(session.trials) = 6
    /\ session.trials[5].net_outcome = -200
    /\ session.trials[6].deck_choice = "C"
    /\ session.current_balance = 2100
    /\ ret.value.profit = 100

\* C8: the i-th element of session.trials has trial_number i.  Checked under
\* SpecGame.
C8_TrialNumbers ==
    \A i \in 1..Len(session.trials) : session.trials[i].trial_number = i

\* several trials appended
C8_Witness ==
    /\ Len(session.trials) >= 5
    /\ session.trials[5].trial_number = 5
    /\ ret.op = "select_deck"

\* C9: net_score is (count(C) + count(D)) - (count(A) + count(B)) and, with
\* at least one trial, advantageous_ratio is (count(C) + count(D)) over the
\* number of trials; 3 A, 2 B, 4 C and 1 D give net_score 0.  Checked under
\* SpecScore.
C9_NetScore ==
    Scored =>
        LET trials == session.trials
            count  == [d \in Decks |-> Cardinality(Choosing(trials, d))]
            ratio  == ret.value.advantageous_ratio
        IN  /\ ret.value.net_score =
                   (count["C"] + count["D"]) - (count["A"] + count["B"])
            /\ Len(trials) > 0 =>
                   /\ ratio.den > 0
                   /\ ratio.num * Len(trials) =
                          (count["C"] + count["D"]) * ratio.den
            /\ count = [A |-> 3, B |-> 2, C |-> 4, D |-> 1] =>
                   ret.value.net_score = 0

\* the history 3 A, 2 B, 4 C, 1 D scored
C9_Witness ==
    /\ Scored
    /\ [d \in Decks |-> Cardinality(Choosing(session.trials, d))] =
           [A |-> 3, B |-> 2, C |-> 4, D |-> 1]
    /\ ret.value.net_score = 0
    /\ ret.value.advantageous_ratio = [num |-> 1, den |-> 2]

\* C10: the deck_counts of calculate_igt_score are the numbers of trials
\* choosing each deck and equal DeckManager.get_deck_counts(); they sum to
\* len(session.trials).  Checked under SpecGame.
C10_DeckCounts ==
    Scored =>
        LET counts == ret.value.deck_counts
        IN  /\ \A d \in Decks :
                  /\ counts[d] = Cardinality(Choosing(session.trials, d))
                  /\ counts[d] = get_deck_counts(deck_manager)[d]
            /\ counts["A"] + counts["B"] + counts["C"] + counts["D"] =
                   Len(session.trials)

\* a session with repeated and unused decks, scored
C10_Witness ==
    /\ Scored
    /\ Len(session.trials) = 6
    /\ ret.value.deck_counts = [A |-> 2, B |-> 0, C |-> 3, D |-> 1]
    /\ get_deck_counts(deck_manager) = [A |-> 2, B |-> 0, C |-> 3, D |-> 1]

-----------------------------------------------------------------------------
(* Properties of the scorers' divisions, checked under SpecGuards *)

\* the recall session held by the application
RecallSession == recall_state.session[1]

\* the scores of the recall session are the last thing returned
RecallScored == recall_ret.op = "calculate_recall_scores" /\ ~recall_ret.raised

\* the positions of the presented words of a category
OfCategory(presented_words, c) ==
    {j \in 1..Len(presented_words) : presented_words[j].category = c}

\* C11: no guarded division raises, and each gives 0 on a zero denominator:
\* recall_rate when no word was presented, category_rate[c] when no word of
\* category c was presented, distractor_accuracy when no distractor problem
\* was answered, advantageous_ratio when the session has no trial.  Checked
\* under SpecGuards.
C11_GuardedDivisions ==
    /\ recall_ret.op = "calculate_recall_scores" =>
           /\ ~recall_ret.raised
           /\ RecallSession.presented_words = << >> =>
                  recall_ret.value.recall_rate = Zero
           /\ \A c \in Categories :
                  OfCategory(RecallSession.presented_words, c) = {} =>
                      recall_ret.value.category_rate[c] = Zero
           /\ RecallSession.distractor_total = 0 =>
                  recall_ret.value.distractor_accuracy = Zero
    /\ ret.op = "calculate_igt_score" =>
           /\ ~ret.raised
           /\ session.trials = << >> => ret.value.advantageous_ratio = Zero

\* both scorers have returned with every denominator zero
C11_Witness ==
    /\ RecallScored
    /\ RecallSession.presented_words = << >>
    /\ RecallSession.distractor_total = 0
    /\ recall_ret.value.recall_rate = Zero
    /\ recall_ret.value.category_rate = [c \in Categories |-> Zero]
    /\ recall_ret.value.distractor_accuracy = Zero
    /\ Scored
    /\ session.trials = << >>
    /\ ret.value.advantageous_ratio = Zero

-----------------------------------------------------------------------------
(* Properties of the recall scorer, checked under SpecRecallScore *)

\* finish_recall has run
Finished == recall_ret.op \in {"finish_recall", "calculate_recall_scores"}

\* the words of a list are pairwise different
DistinctWords(presented_words) ==
    \A i, j \in 1..Len(presented_words) :
        presented_words[i].word = presented_words[j].word => i = j

\* the responses (by index) that are correct
CorrectResponses(responses) == {i \in 1..Len(responses) : responses[i].is_correct}

\* C15: finish_recall creates one RecallResponse per submitted word, in
\* input order with recall_order 1..k; is_correct holds iff the word is a
\* presented word, is_intrusion is its negation, and original_position is
\* the presentation_order of a presented word with that word string when
\* correct and None otherwise.  Checked under SpecRecallScore.
C15_Responses ==
    Finished =>
        LET inputs    == recall_state.recalled_words_input
            presented == RecallSession.presented_words
            responses == RecallSession.recalled_words
        IN  /\ Len(responses) = Len(inputs)
            /\ \A i \in 1..Len(inputs) :
                  LET r       == responses[i]
                      matches == {j \in 1..Len(presented) :
                                    presented[j].word = inputs[i]}
                  IN  /\ r.recalled_word = inputs[i]
                      /\ r.recall_order = i
                      /\ r.is_correct <=> matches # {}
                      /\ r.is_intrusion <=> ~r.is_correct
                      /\ IF r.is_correct
                         THEN \E j \in matches :
                                 r.original_position =
                                     Some(presented[j].presentation_order)
                         ELSE r.original_position = None

\* seven words submitted, two intrusions first, then five presented words
C15_Witness ==
    /\ recall_ret.op = "finish_recall"
    /\ Len(RecallSession.recalled_words) = 7
    /\ RecallSession.recalled_words[1].is_intrusion
    /\ RecallSession.recalled_words[1].original_position = None
    /\ RecallSession.recalled_words[3].is_correct
    /\ RecallSession.recalled_words[3].recall_order = 3
    /\ RecallSession.recalled_words[3].original_position = Some(8)

\* C16: with pairwise different presented words P and submitted words R,
\* correct_recalls = |R /\ P|, intrusion_errors = |R \ P|, their sum is
\* total_recalled, and recall_rate = correct_recalls / |P|; 15 presented,
\* 5 of them and 2 others recalled give 5, 2 and 5/15.  Checked under
\* SpecRecallScore.
C16_RecallCounts ==
    (RecallScored /\ DistinctWords(RecallSession.presented_words)) =>
        LET inputs == recall_state.recalled_words_input
            P      == {RecallSession.presented_words[j].word :
                          j \in 1..Len(RecallSession.presented_words)}
            R      == {inputs[i] : i \in 1..Len(inputs)}
            scores == recall_ret.value
        IN  /\ scores.correct_recalls = Cardinality(R \cap P)
            /\ scores.intrusion_errors = Cardinality(R \ P)
            /\ scores.correct_recalls + scores.intrusion_errors =
                   scores.total_recalled
            /\ P # {} =>
                   /\ scores.recall_rate.den > 0
                   /\ scores.recall_rate.num * Cardinality(P) =
                          scores.correct_recalls * scores.recall_rate.den
            /\ (/\ Cardinality(P) = 15
                /\ Cardinality(R \cap P) = 5
                /\ Cardinality(R \ P) = 2) =>
                   /\ scores.correct_recalls = 5
                   /\ scores.intrusion_errors = 2
                   /\ scores.recall_rate = [num |-> 1, den |-> 3]

\* 15 words presented, 5 of them and 2 other words recalled, scored
C16_Witness ==
    /\ RecallScored
    /\ Len(RecallSession.presented_words) = 15
    /\ DistinctWords(RecallSession.presented_words)
    /\ Len(recall_state.recalled_words_input) = 7
    /\ recall_ret.value.correct_recalls = 5
    /\ recall_ret.value.intrusion_errors = 2
    /\ recall_ret.value.recall_rate = [num |-> 1, den |-> 3]

\* the correct responses whose original position lies in a set
CorrectAt(responses, positions) ==
    {i \in CorrectResponses(responses) :
        /\ responses[i].original_position # None
        /\ responses[i].original_position[1] \in positions}

\* C17: with n presented words and range = min(3, n // 3), a correct
\* response counts as primacy iff original_position <= range, as recency iff
\* it is not primacy and original_position > n - range, as middle
\* otherwise; for n = 9 position 1 is primacy, 5 and 6 are middle, 7, 8 and
\* 9 are recency.  Checked under SpecRecallScore.
C17_SerialPosition ==
    RecallScored =>
        LET n         == Len(RecallSession.presented_words)
            range     == IF n \div 3 < 3 THEN n \div 3 ELSE 3
            responses == RecallSession.recalled_words
            primacy   == {q \in 1..n : q <= range}
            recency   == {q \in 1..n : q > n - range} \ primacy
            middle    == (1..n) \ (primacy \cup recency)
            counted   == recall_ret.value.serial_position
        IN  /\ counted.primacy = Cardinality(CorrectAt(responses, primacy))
            /\ counted.recency = Cardinality(CorrectAt(responses, recency))
            /\ counted.middle = Cardinality(CorrectAt(responses, middle))
            /\ n = 9 =>
                   /\ counted.primacy = Cardinality(CorrectAt(responses, {1, 2, 3}))
                   /\ counted.middle = Cardinality(CorrectAt(responses, {4, 5, 6}))
                   /\ counted.recency = Cardinality(CorrectAt(responses, {7, 8, 9}))

\* nine words presented, those of the positions 5, 6, 7, 8 and 9 recalled
C17_Witness ==
    /\ RecallScored
    /\ Len(RecallSession.presented_words) = 9
    /\ {RecallSession.recalled_words[i].original_position :
           i \in CorrectResponses(RecallSession.recalled_words)} =
           {Some(5), Some(6), Some(7), Some(8), Some(9)}
    /\ recall_ret.value.serial_position =
           [primacy |-> 0, middle |-> 2, recency |-> 3]

\* C18: with fewer than 3 presented words every correct response is counted
\* as middle: primacy = 0 and recency = 0.  Checked under SpecRecallScore.
C18_ShortList ==
    (RecallScored /\ Len(RecallSession.presented_words) < 3) =>
        /\ recall_ret.value.serial_position.primacy = 0
        /\ recall_ret.value.serial_position.recency = 0
        /\ recall_ret.value.serial_position.middle =
               recall_ret.value.correct_recalls

\* two words presented and both recalled
C18_Witness ==
    /\ RecallScored
    /\ Len(RecallSession.presented_words) = 2
    /\ recall_ret.value.correct_recalls = 2
    /\ recall_ret.value.serial_position =
           [primacy |-> 0, middle |-> 2, recency |-> 0]

\* the category of the first presented word with a word string
FirstCategory(presented_words, word) ==
    LET hits == {j \in 1..Len(presented_words) : presented_words[j].word = word}
    IN  presented_words[CHOOSE j \in hits : \A h \in hits : j <= h].category

\* C19: category_total[c] is the number of presented words of category c;
\* category_recall[c] is the number of correct responses whose first
\* presented word with the same word string has category c; the three
\* category_recall values sum to correct_recalls.  Checked under
\* SpecRecallScore.
C19_Categories ==
    RecallScored =>
        LET presented == RecallSession.presented_words
            responses == RecallSession.recalled_words
            scores    == recall_ret.value
        IN  /\ \A c \in Categories :
                  /\ scores.category_total[c] =
                         Cardinality(OfCategory(presented, c))
                  /\ scores.category_recall[c] =
                         Cardinality({i \in CorrectResponses(responses) :
                             FirstCategory(presented, responses[i].recalled_word) = c})
            /\ scores.category_recall["positive"]
                   + scores.category_recall["negative"]
                   + scores.category_recall["neutral"] = scores.correct_recalls

\* a word string presented as positive, then as neutral, recalled and
\* counted as positive
C19_Witness ==
    /\ RecallScored
    /\ ~DistinctWords(RecallSession.presented_words)
    /\ RecallSession.presented_words[1].word = "p01"
    /\ RecallSession.presented_words[3].word = "p01"
    /\ recall_state.recalled_words_input = <<"p01", "n01", "u01">>
    /\ recall_ret.value.category_total =
           [positive |-> 1, negative |-> 1, neutral |-> 2]
    /\ recall_ret.value.category_recall =
           [positive |-> 1, negative |-> 1, neutral |-> 1]

-----------------------------------------------------------------------------
(* Properties of the word lists, checked under SpecWords *)

\* create_word_list(condition, ...) has returned a list
Listed(condition) ==
    /\ recall_ret.op = "create_word_list"
    /\ ~recall_ret.raised
    /\ recall_ret.arg.condition = condition

\* the number of words of a category in the list returned
Returned_of(c) == Cardinality(OfCategory(recall_ret.value, c))

\* C20 as stated: create_word_list("mixed", count) returns count // 3
\* positive, count // 3 negative and count // 3 + count % 3 neutral words,
\* for every count.
C20_MixedSplitAsStated ==
    Listed("mixed") =>
        LET count == recall_ret.arg.num_words
        IN  /\ Returned_of("positive") = count \div 3
            /\ Returned_of("negative") = count \div 3
            /\ Returned_of("neutral") = (count \div 3) + (count % 3)

\* C20: create_word_list("mixed", count) returns count // 3 positive,
\* count // 3 negative and count // 3 + count % 3 neutral words, each number
\* capped at the 20 words the catalog holds per category; no cap applies
\* while count // 3 + count % 3 <= 20; 15 gives 5/5/5 and 16 gives 5/5/6.
\* Checked under SpecWords.
C20_MixedSplit ==
    Listed("mixed") =>
        LET count == recall_ret.arg.num_words
            n     == count \div 3
            r     == count % 3
            split == [positive |-> n, negative |-> n, neutral |-> n + r]
            size  == [c \in Categories |-> Len(WORD_DATABASE[c])]
        IN  /\ \A c \in Categories :
                  Returned_of(c) = IF split[c] <= size[c] THEN split[c] ELSE size[c]
            /\ n + r <= size["neutral"] => \A c \in Categories : Returned_of(c) = split[c]
            /\ count = 15 =>
                   [c \in Categories |-> Returned_of(c)] =
                       [positive |-> 5, negative |-> 5, neutral |-> 5]
            /\ count = 16 =>
                   [c \in Categories |-> Returned_of(c)] =
                       [positive |-> 5, negative |-> 5, neutral |-> 6]

\* a mixed list of 16 words: 5 positive, 5 negative, 6 neutral
C20_Witness ==
    /\ Listed("mixed")
    /\ recall_ret.arg.num_words = 16
    /\ Len(recall_ret.value) = 16
    /\ [c \in Categories |-> Returned_of(c)] =
           [positive |-> 5, negative |-> 5, neutral |-> 6]

\* C21 as stated: create_word_list("emotional", count) returns
\* floor(count/2) positive and count - floor(count/2) negative words and
\* no neutral word, and create_word_list("neutral", count) returns only
\* neutral words, for every count.
C21_EmotionalSplitAsStated ==
    /\ Listed("emotional") =>
           LET count == recall_ret.arg.num_words
           IN  /\ Returned_of("positive") = count \div 2
               /\ Returned_of("negative") = count - (count \div 2)
               /\ Returned_of("neutral") = 0
    /\ Listed("neutral") =>
           \A i \in 1..Len(recall_ret.value) :
               recall_ret.value[i].category = "neutral"

\* C21: create_word_list("emotional", count) returns floor(count/2)
\* positive and count - floor(count/2) negative words, each number capped
\* at the 20 words the catalog holds per category, and no neutral word;
\* no cap applies while count - floor(count/2) <= 20;
\* create_word_list("neutral", count) returns only neutral words.
\* Checked under SpecWords.
C21_EmotionalSplit ==
    /\ Listed("emotional") =>
           LET count == recall_ret.arg.num_words
               n     == count \div 2
               split == [positive |-> n, negative |-> count - n, neutral |-> 0]
               size  == [c \in Categories |-> Len(WORD_DATABASE[c])]
           IN  /\ \A c \in Categories :
                     Returned_of(c) = IF split[c] <= size[c] THEN split[c] ELSE size[c]
               /\ count - n <= size["negative"] =>
                      \A c \in Categories : Returned_of(c) = split[c]
               /\ \A i \in 1..Len(recall_ret.value) :
                      recall_ret.value[i].category # "neutral"
    /\ Listed("neutral") =>
           \A i \in 1..Len(recall_ret.value) :
               recall_ret.value[i].category = "neutral"

\* an emotional list of 7 words: 3 positive, 4 negative
C21_Witness ==
    /\ Listed("emotional")
    /\ recall_ret.arg.num_words = 7
    /\ Len(recall_ret.value) = 7
    /\ [c \in Categories |-> Returned_of(c)] =
           [positive |-> 3, negative |-> 4, neutral |-> 0]

\* the number of words create_word_list is asked to draw from each category
Requested(condition, count) ==
    IF condition = "emotional"
    THEN [positive |-> count \div 2, negative |-> count - (count \div 2),
          neutral |-> 0]
    ELSE IF condition = "neutral"
    THEN [positive |-> 0, negative |-> 0, neutral |-> count]
    ELSE [positive |-> count \div 3, negative |-> count \div 3,
          neutral |-> (count \div 3) + (count % 3)]

\* C22: create_word_list samples without replacement and caps silently:
\* for every condition and every count >= 0 no error is raised, the list
\* returned holds no word twice, and each category contributes
\* min(requested for that category, 20) words, so fewer words than asked
\* for are returned when the request exceeds the catalog.  Checked under
\* SpecWords.
C22_SilentCap ==
    recall_ret.op = "create_word_list" =>
        /\ ~recall_ret.raised
        /\ \A i, j \in 1..Len(recall_ret.value) :
               recall_ret.value[i].word = recall_ret.value[j].word => i = j
        /\ \A c \in Categories :
               Returned_of(c) =
                   Min(Requested(recall_ret.arg.condition,
                                 recall_ret.arg.num_words)[c], 20)

\* a mixed list of 62 words is asked for and 60 come back, 20 of each
\* category
C22_Witness ==
    /\ Listed("mixed")
    /\ recall_ret.arg.num_words = 62
    /\ Len(recall_ret.value) = 60
    /\ \A c \in Categories : Returned_of(c) = 20

\* C23: in every list returned by create_word_list, presentation_order is
\* assigned after the shuffle as 1..N in final list order: the i-th element
\* has presentation_order = i, so the values are unique within the list and
\* cover exactly 1..N.  Checked under SpecWords.
C23_OrderAfterShuffle ==
    (recall_ret.op = "create_word_list" /\ ~recall_ret.raised) =>
        LET words == recall_ret.value
            N     == Len(words)
        IN  /\ \A i \in 1..N : words[i].presentation_order = i
            /\ \A i, j \in 1..N :
                   words[i].presentation_order = words[j].presentation_order
                       => i = j
            /\ {words[i].presentation_order : i \in 1..N} = 1..N

\* a mixed list of 15 words that the shuffle has reordered (the positive
\* words, sampled first, no longer lead it), numbered 1..15 as it stands
C23_Witness ==
    /\ Listed("mixed")
    /\ recall_ret.arg.num_words = 15
    /\ Len(recall_ret.value) = 15
    /\ recall_ret.value[1].category # "positive"
    /\ recall_ret.value[1].presentation_order = 1
    /\ recall_ret.value[15].presentation_order = 15

-----------------------------------------------------------------------------
(* Properties of the two-session variant *)

\* the calls of get_fixed_word_list(randomize=False) made so far
FixedOrderCalls ==
    {i \in 1..Len(calls) : /\ calls[i].op = "get_fixed_word_list"
                           /\ ~calls[i].arg.randomize}

BothPasses ==
    encoding_state.session # None /\ recall_pass_state.session # None

\* C25: the encoding session and the recall session reference the same
\* ground truth: the list scored against in the recall session holds
\* exactly the words shown in the encoding session, and whenever the
\* encoding screen shows a word, the position it is shown at is that word's
\* presentation_order in the recall session and the original_position of
\* every response that recalls it.  Checked under SpecPasses.
C25_SameGroundTruth ==
    BothPasses =>
        LET shown  == encoding_state.session[1].presented_words
            scored == recall_pass_state.session[1]
        IN  /\ {shown[i].word : i \in 1..Len(shown)} =
                   {scored.presented_words[i].word :
                        i \in 1..Len(scored.presented_words)}
            /\ encoding_shown(encoding_state) # None =>
                   LET word     == encoding_shown(encoding_state)[1]
                       position == encoding_state.current_word_idx + 1
                   IN  /\ \A i \in 1..Len(scored.presented_words) :
                              scored.presented_words[i].word = word
                                  => scored.presented_words[i].presentation_order
                                         = position
                       /\ \A n \in 1..Len(scored.recalled_words) :
                              scored.recalled_words[n].recalled_word = word
                                  => scored.recalled_words[n].original_position
                                         = Some(position)

-----------------------------------------------------------------------------
(* Properties of repeated scoring, checked under SpecPure *)

\* the scorings made so far by one of the two scorers
ScoringsBy(op) == {i \in 1..Len(calls) : calls[i].op = op}

-----------------------------------------------------------------------------
(* Properties of the session ids, checked under SpecIds *)

\* the calls of either generate_session_id made so far
IdCalls ==
    {i \in 1..Len(calls) :
        calls[i].op \in {"igt_utils.generate_session_id",
                         "free_recall_utils.generate_session_id"}}

\* an id of the form PREFIX_timestamp_random-suffix: a prefix, the date and
\* time of the timestamp, the suffix
HasIdForm(id) ==
    /\ Len(id) = 4
    /\ id[1] \in STRING
    /\ id[1] # ""

\* any two ids produced so far are different
IdsDiffer ==
    \A i, j \in IdCalls : calls[i].value = calls[j].value => i = j

\* C27: every session id has the form PREFIX_timestamp_random-suffix, and
\* any two ids produced by generate_session_id (gambling or recall) are
\* different, two ids produced within the same second included.  Checked
\* under SpecIds.
C27_UniqueIds ==
    /\ \A i \in IdCalls : HasIdForm(calls[i].value)
    /\ IdsDiffer

-----------------------------------------------------------------------------
(* Properties of the exports, checked under SpecExport *)

\* the attribute of a trial each trial column of the gambling sheet holds
TrialColumn ==
    [trial       |-> "trial_number",
     deck        |-> "deck_choice",
     reward      |-> "reward",
     penalty     |-> "penalty",
     net_outcome |-> "net_outcome",
     balance     |-> "balance_after",
     timestamp   |-> "timestamp"]

\* the nine columns of the gambling sheet, in order
GamblingColumns ==
    <<"session_id", "participant_id", "trial", "deck", "reward", "penalty",
      "net_outcome", "balance", "timestamp">>

\* the columns of the recall sheet, in order
RecallColumns ==
    <<"session_id", "participant_id", "condition", "processing_type",
      "start_time", "end_time", "total_presented", "correct_recalls",
      "recall_rate", "intrusion_errors", "positive_recall",
      "negative_recall", "neutral_recall", "primacy", "middle", "recency",
      "distractor_accuracy">>

\* what each column of the recall sheet holds for a scored session
RecallCells(sess, scores) ==
    [session_id          |-> sess.session_id,
     participant_id      |-> sess.participant_id,
     condition           |-> sess.condition,
     processing_type     |-> sess.processing_type,
     start_time          |-> sess.start_time,
     end_time            |-> sess.end_time,
     total_presented     |-> scores.total_presented,
     correct_recalls     |-> scores.correct_recalls,
     recall_rate         |-> Format3(scores.recall_rate),
     intrusion_errors    |-> scores.intrusion_errors,
     positive_recall     |-> scores.category_recall["positive"],
     negative_recall     |-> scores.category_recall["negative"],
     neutral_recall      |-> scores.category_recall["neutral"],
     primacy             |-> scores.serial_position["primacy"],
     middle              |-> scores.serial_position["middle"],
     recency             |-> scores.serial_position["recency"],
     distractor_accuracy |-> Format3(scores.distractor_accuracy)]

\* C28: the gambling prepare_for_spreadsheet returns the fixed 9-column
\* header followed by one row per trial in trial order, each row with the
\* header's length and column order; the recall prepare_for_spreadsheet
\* returns its fixed header followed by exactly one data row of the same
\* length (and column order).  Checked under SpecExport.
C28_Exports ==
    /\ ret.op = "prepare_for_spreadsheet" =>
           LET rows == ret.value
           IN  /\ ~ret.raised
               /\ Len(rows) = 1 + Len(session.trials)
               /\ rows[1] = GamblingColumns
               /\ Len(rows[1]) = 9
               /\ \A i \in 1..Len(session.trials) :
                      /\ Len(rows[i + 1]) = Len(rows[1])
                      /\ \A k \in 1..Len(rows[1]) :
                             rows[i + 1][k] =
                                 IF rows[1][k] \in DOMAIN TrialColumn
                                 THEN session.trials[i][TrialColumn[rows[1][k]]]
                                 ELSE session[rows[1][k]]
    /\ recall_ret.op = "prepare_for_spreadsheet" =>
           LET rows  == recall_ret.value
               cells == RecallCells(RecallSession,
                                    calculate_recall_scores(RecallSession))
           IN  /\ ~recall_ret.raised
               /\ Len(rows) = 2
               /\ rows[1] = RecallColumns
               /\ Len(rows[2]) = Len(rows[1])
               /\ \A k \in 1..Len(rows[1]) : rows[2][k] = cells[rows[1][k]]

\* both sheets made: four trial rows of a game that began with decks A and
\* C, and the row of a recall session with a correct recall
C28_Witness ==
    /\ ret.op = "prepare_for_spreadsheet"
    /\ Len(ret.value) = 5
    /\ ret.value[2][4] = "A" /\ ret.value[2][5] = 100
    /\ ret.value[3][4] = "C" /\ ret.value[3][5] = 50
    /\ ret.value[5][3] = 4
    /\ recall_ret.op = "prepare_for_spreadsheet"
    /\ Len(recall_ret.value) = 2
    /\ recall_ret.value[2][8] >= 1

-----------------------------------------------------------------------------
(* Properties of the gambling application, checked under SpecUI *)

\* the session is complete
Complete == Len(session.trials) >= session.total_trials

\* C29, the states: once a game is started, len(session.trials) <=
\* session.total_trials, and game_ended is true and end_time is stamped
\* exactly when len(session.trials) >= total_trials
C29_States ==
    ui.game_started =>
        /\ Len(session.trials) <= session.total_trials
        /\ ui.game_ended <=> Complete
        /\ session.end_time # None <=> Complete

\* C29, the steps: end_time is stamped in the select_deck call that appends
\* the last trial, and never changes afterwards
C29_Steps ==
    ui.game_started =>
        /\ (session.end_time = None /\ session'.end_time # None) =>
               /\ ret'.op = "select_deck"
               /\ Len(session'.trials) = Len(session.trials) + 1
               /\ Len(session'.trials) = session.total_trials
        /\ session.end_time # None => session'.end_time = session.end_time

\* C29: in every reachable state of the gambling UI flow
\* len(session.trials) <= session.total_trials; game_ended is true and
\* end_time is stamped exactly when len(session.trials) >= total_trials;
\* the stamp happens in the select_deck call that appends the last trial,
\* and end_time never changes afterwards.  Checked under SpecUI.
C29_Completion == [](C29_States) /\ [][C29_Steps]_vars

\* the game is over and logged: ten trials, end_time stamped by the tenth
\* select_deck at the time of the start, read again on the results screen
\* ten minutes later
C29_Witness ==
    /\ ui.game_started /\ ui.game_ended /\ ui.logged_end
    /\ Len(session.trials) = total_trials
    /\ session.end_time = Some(ui.game_start_timestamp)
    /\ clock >= ui.game_start_timestamp + MIN_GAME_DURATION
    /\ ret.op = "display_results"

-----------------------------------------------------------------------------
(* Properties of the batch logging, checked under SpecLogging *)

\* the trial numbers handed to log_batch_trials so far, in hand-over order
RECURSIVE HandedNumbers(_)
HandedNumbers(history) ==
    IF history = << >> THEN << >>
    ELSE LET call == Head(history)
         IN  (IF call.op = "log_batch_trials"
              THEN [i \in 1..Len(call.arg) |-> call.arg[i].trial_number]
              ELSE << >>) \o HandedNumbers(Tail(history))

\* each trial handed over at most once, in trial_number order
HandedInOrder ==
    LET numbers == HandedNumbers(calls)
    IN  \A i \in 1..(Len(numbers) - 1) : numbers[i] < numbers[i + 1]

\* last_logged_trial_idx never exceeds len(session.trials)
IdxWithinTrials == ui.last_logged_trial_idx <= Len(session.trials)

\* last_logged_trial_idx never decreases
IdxNeverDecreases ==
    [][ui'.last_logged_trial_idx >= ui.last_logged_trial_idx]_vars

\* when the session end is logged every trial of the session has been
\* handed over exactly once
AllHandedAtEnd ==
    ui.logged_end =>
        LET numbers == HandedNumbers(calls)
        IN  \A i \in 1..ui.last_logged_trial_idx :
                Cardinality({k \in 1..Len(numbers) :
                                numbers[k] = session.trials[i].trial_number}) = 1

\* C30: across any sequence of select_deck and display_results executions,
\* each trial is handed to log_batch_trials at most once and in
\* trial_number order, last_logged_trial_idx never decreases and never
\* exceeds len(session.trials), and by the time the session end is logged
\* every trial of the session has been handed over exactly once.  Checked
\* under SpecLogging.
C30_HandOver ==
    /\ [](HandedInOrder /\ IdxWithinTrials /\ AllHandedAtEnd)
    /\ IdxNeverDecreases
    /\ [][(~ui.logged_end /\ ui'.logged_end) =>
             ui'.last_logged_trial_idx = Len(session'.trials)]_vars

-----------------------------------------------------------------------------
(* Properties of the stepwise batch logging, checked under SpecConcurrent *)

\* the trial numbers logged so far, in logging order
RECURSIVE LoggedNumbers(_)
LoggedNumbers(log) ==
    IF log = << >> THEN << >>
    ELSE [i \in 1..Len(Head(log)) |-> Head(log)[i].trial_number]
             \o LoggedNumbers(Tail(log))

\* no trial is logged twice
NeverLoggedTwice ==
    LET numbers == LoggedNumbers(batch_log)
    IN  \A i \in 1..(Len(numbers) - 1) : numbers[i] < numbers[i + 1]

\* no trial is lost: every trial marked as logged has been logged
NoneLost ==
    LET numbers == LoggedNumbers(batch_log)
    IN  \A i \in 1..ui.last_logged_trial_idx :
            /\ i <= Len(session.trials)
            /\ \E k \in 1..Len(numbers) : numbers[k] = session.trials[i].trial_number

\* the step on which the running call stores last_logged_trial_idx
Stores == IsRunning /\ frame[1].pc = "store" /\ frame'[1].pc = "done"

\* the running call marks as logged no trial appended while it was running
MarksNoneAppendedMeanwhile ==
    [][Stores => ui'.last_logged_trial_idx <= frame[1].len_at_entry]_vars

\* a call hands over every trial that is there and not marked as logged
\* when it reads the length
NextCallHandsOver ==
    [][(IsRunning /\ frame[1].pc = "build" /\ frame'[1].pc = "log") =>
           /\ frame[1].last_idx = ui.last_logged_trial_idx
           /\ frame'[1].trials_data =
                  SubSeq(session.trials, ui.last_logged_trial_idx + 1,
                         frame[1].current_idx)]_vars

AppendedAfterReadNotMarked ==
    /\ [][(IsRunning /\ frame[1].pc # "len"
              /\ Len(session'.trials) > Len(session.trials)) =>
             /\ frame' = frame
             /\ Len(session'.trials) > frame[1].current_idx]_vars
    /\ [][Stores => ui'.last_logged_trial_idx = frame[1].current_idx]_vars

\* a trial appended before the running call reads len(session.trials) is
\* counted by that read
AppendedBeforeReadCounted ==
    [][(IsRunning /\ frame[1].pc = "len") =>
           (frame' # frame => frame'[1].current_idx = Len(session.trials))]_vars

-----------------------------------------------------------------------------
(* Properties of the session end, checked under SpecSessionEnd *)

\* the calls of op made so far, with the argument arg
CallsOf(op, arg) == {i \in 1..Len(calls) : calls[i].op = op /\ calls[i].arg = arg}

\* C32: however many times the results screen is executed again,
\* log_session_end is called at most once per session, and finish_recall
\* emits the RecallEnd event at most once.  Checked under SpecSessionEnd.
C32_EndLoggedOnce ==
    /\ Cardinality(CallsOf("log_session_end", None)) <= 1
    /\ Cardinality(CallsOf("gsheet_log_event", "RecallEnd")) <= 1

-----------------------------------------------------------------------------
(* Properties of the minimum duration, checked under SpecGate *)

\* the seconds since the game started
Elapsed == clock - ui.game_start_timestamp

\* the results screen, the final batch logging and the session-end logging
\* have been reached only after the game has ended and MIN_GAME_DURATION
\* has passed
ResultsOnlyAfterMinimum ==
    (ret.op = "display_results" \/ ui.logged_end \/ calls # << >>) =>
        /\ ui.game_ended
        /\ Elapsed >= MIN_GAME_DURATION

\* while the game has ended and less than MIN_GAME_DURATION has passed,
\* a step shows the wait screen and changes nothing of the session
OnlyWaitScreenBefore ==
    [][(ui.game_started /\ ui.game_ended /\ Elapsed < MIN_GAME_DURATION) =>
           /\ ret'.op = "display_wait_screen"
           /\ ret'.arg = MIN_GAME_DURATION - Elapsed
           /\ clock' > clock
           /\ UNCHANGED <<deck_manager, session, ui, batch_log, calls>>]_vars

-----------------------------------------------------------------------------
(* Properties of the phases, checked under SpecRecallFlow *)

\* the phases in their order
PhaseOrder == <<"setup", "encoding", "distractor", "recall", "results">>

\* the place of a phase in the order
PhaseIndex(phase) == CHOOSE i \in 1..Len(PhaseOrder) : PhaseOrder[i] = phase

\* the session of a state has its end time stamped
Stamped(s) == s.session # None /\ s.session[1].end_time # None

\* a change of phase goes one phase forward, or back to setup by Stop or
\* by "new experiment" on the results screen
PhaseForward ==
    [][recall_state'.phase # recall_state.phase =>
          \/ PhaseIndex(recall_state'.phase) = PhaseIndex(recall_state.phase) + 1
          \/ /\ recall_state'.phase = "setup"
             /\ recall_state' = RecallSessionState
             /\ \/ /\ recall_state.phase \in {"encoding", "distractor", "recall"}
                   /\ recall_ret'.op = "reset_experiment"
                \/ /\ recall_state.phase = "results"
                   /\ recall_ret'.op = "new_experiment"]_vars

\* end_time is stamped on the step from recall to results and on no other
StampedOnFinish ==
    [][(~Stamped(recall_state) /\ Stamped(recall_state')) <=>
           (recall_state.phase = "recall" /\ recall_state'.phase = "results")]_vars

\* C34: the phase only moves forward along setup, encoding, distractor,
\* recall, results, one phase at a time, the only other transition being a
\* reset to setup (Stop, or a new experiment from the results);
\* session.end_time is stamped exactly on the step from recall to results.
\* Checked under SpecRecallFlow.
C34_PhasesForward ==
    /\ [](/\ recall_state.phase \in {PhaseOrder[i] : i \in 1..Len(PhaseOrder)}
          /\ Stamped(recall_state) <=> recall_state.phase = "results")
    /\ PhaseForward
    /\ StampedOnFinish

\* the recall has been finished with words submitted: the results are
\* shown and end_time is stamped
C34_Witness ==
    /\ recall_state.phase = "results"
    /\ recall_ret.op = "finish_recall"
    /\ Stamped(recall_state)
    /\ Len(RecallSession.recalled_words) > 0

-----------------------------------------------------------------------------
(* Properties of the encoding phase, checked under SpecEncoding *)

\* during the encoding the list has num_words words and the word at
\* current_word_idx is on the screen
WordOnScreen ==
    recall_state.phase = "encoding" =>
        /\ Len(RecallSession.presented_words) = RecallSession.num_words
        /\ recall_state.current_word_idx < Len(RecallSession.presented_words)
        /\ show_encoding(recall_state) =
               Some(RecallSession.presented_words[recall_state.current_word_idx + 1].word)
        /\ recall_ret.op = "show_encoding" =>
               /\ recall_ret.arg = recall_state.current_word_idx
               /\ recall_ret.value = show_encoding(recall_state)

\* each advance moves to the next word of the list, and the one that
\* follows the last word ends the encoding
OneWordPerAdvance ==
    [][recall_ret'.op = "advance_word" /\ recall_state' # recall_state =>
          /\ recall_state.phase = "encoding"
          /\ recall_state'.current_word_idx = recall_state.current_word_idx + 1
          /\ recall_state'.session = recall_state.session
          /\ recall_state'.phase =
                 IF recall_state'.current_word_idx = RecallSession.num_words
                 THEN "distractor" ELSE "encoding"]_vars

-----------------------------------------------------------------------------
(* Properties of the word submissions, checked under SpecSubmissions *)

\* no word twice and no empty or blank entry
NoRepeatNoBlank(inputs) ==
    /\ \A i \in 1..Len(inputs), j \in 1..Len(inputs) :
           i # j => inputs[i] # inputs[j]
    /\ \A i \in 1..Len(inputs) : inputs[i] \notin {"", Blank}

\* the correct responses of a session are pairwise distinct and no more
\* than the presented words
DistinctCorrect(sess) ==
    LET correct == {i \in 1..Len(sess.recalled_words) :
                        sess.recalled_words[i].is_correct}
    IN  /\ \A i \in correct, j \in correct :
               i # j => sess.recalled_words[i].recalled_word #
                            sess.recalled_words[j].recalled_word
        /\ Cardinality(correct) <= Len(sess.presented_words)

-----------------------------------------------------------------------------
(* Properties of the serial-position counts, checked under SpecRecallScore *)

\* with n presented words no position is both a primacy position
\* (<= range) and a recency position (> n - range)
DisjointRanges(n) ==
    LET range   == SerialRange(n)
        primacy == {q \in 0..(n + 1) : q <= range}
        recency == {q \in 0..(n + 1) : q > n - range}
    IN  primacy \cap recency = {}

\* the words of a list carry the presentation_order 1..n
OrderedFromOne(presented_words) ==
    \A i \in 1..Len(presented_words) : presented_words[i].presentation_order = i

\* C37: for every number n of presented words the primacy positions
\* (<= range) and the recency positions (> n - range) are disjoint, and for
\* a session whose responses finish_recall built from a list with
\* presentation_order 1..n, primacy + middle + recency = correct_recalls.
\* Checked under SpecRecallScore.
C37_SerialBuckets ==
    /\ \A n \in 0..(3 * MaxWords) : DisjointRanges(n)
    /\ DisjointRanges(Len(RecallSession.presented_words))
    /\ (RecallScored /\ OrderedFromOne(RecallSession.presented_words)) =>
           LET counted == recall_ret.value.serial_position
           IN  counted.primacy + counted.middle + counted.recency =
                   recall_ret.value.correct_recalls

\* a scored session with correct responses in each of the three buckets
C37_Witness ==
    /\ RecallScored
    /\ OrderedFromOne(RecallSession.presented_words)
    /\ recall_ret.value.serial_position.primacy >= 1
    /\ recall_ret.value.serial_position.middle >= 1
    /\ recall_ret.value.serial_position.recency >= 1
    /\ recall_ret.value.intrusion_errors >= 1

-----------------------------------------------------------------------------
(* Properties of the counters and of reset, checked under SpecDeckReset *)

\* reset has been called
ResetCalled == \E i \in 1..Len(calls) : calls[i].op = "reset"

\* C38: as long as DeckManager.reset has not been called,
\* deck_indices[d] = deck_counts[d] mod 40 for every deck d, failed draws
\* counting for nothing.  Checked under SpecDeckReset.
C38_CursorIsCountMod40 ==
    ~ResetCalled =>
        \A d \in Decks :
            /\ deck_manager.deck_counts[d] = Len(drawn[d])
            /\ deck_manager.deck_indices[d] = deck_manager.deck_counts[d] % 40

\* deck A is in its second cycle, and the last call was a failed draw
C38_Witness ==
    /\ ~ResetCalled
    /\ deck_manager.deck_counts["A"] = 41
    /\ deck_manager.deck_indices["A"] = 1
    /\ deck_manager.deck_counts["D"] = 2
    /\ ret.op = "draw_card" /\ ret.raised

\* the number in its cycle (from 1) of the card a deck's latest draw took
LatestCard(deck) == ((Len(drawn[deck]) - 1) % CycleLength) + 1

\* C39: reset sets all four deck_counts to 0 and leaves every deck cursor
\* unchanged, so the first draw from deck d after reset returns the next
\* card of d's cycle, not card 1.  Checked under SpecDeckReset.
C39_ResetKeepsCursors ==
    /\ [][Len(calls') > Len(calls) =>
             /\ ret'.op = "reset"
             /\ deck_manager'.deck_counts = [d \in Decks |-> 0]
             /\ deck_manager'.deck_indices = deck_manager.deck_indices
             /\ drawn' = drawn]_vars
    /\ [](\A d \in Decks :
             /\ deck_manager.deck_indices[d] = Len(drawn[d]) % CycleLength
             /\ (ret.op = "draw_card" /\ ret.arg = d /\ ~ret.raised) =>
                    /\ ret.value = drawn[d][Len(drawn[d])]
                    /\ ret.value.reward = rewards[d]
                    /\ ret.value.penalty = penalty_schedules[d][LatestCard(d)])

\* after two draws from deck A and a reset, the first draw from A takes
\* card 3 (penalty 150), not card 1
C39_Witness ==
    /\ ResetCalled
    /\ ret.op = "draw_card" /\ ret.arg = "A" /\ ~ret.raised
    /\ deck_manager.deck_counts["A"] = 1
    /\ Len(drawn["A"]) = 3
    /\ ret.value.penalty = 150

-----------------------------------------------------------------------------
(* Properties of gsheet_log_batch, checked under SpecSheets *)

\* the sheets (by number in SHEET_INFO) a step has changed
Touched == {k \in 1..Len(SHEET_INFO) : sheets'[SHEET_INFO[k]] # sheets[SHEET_INFO[k]]}

\* the number of the first sheet that takes the rows, or one past the last
FirstAppended(outcomes) ==
    SetMin({k \in 1..Len(SHEET_INFO) : outcomes[k] = "appended"}
               \cup {Len(SHEET_INFO) + 1})

\* C40: gsheet_log_batch tries the sheets in SHEET_INFO order and stops at
\* the first success: a non-empty batch is appended to at most one sheet,
\* to sheet k only if every sheet before k failed; when every sheet fails
\* no exception propagates; an empty batch touches no sheet.  Checked under
\* SpecSheets.
C40_FirstSheetThatTakes ==
    [][Len(calls') > Len(calls) =>
          LET rows     == ret'.arg.rows
              outcomes == ret'.arg.outcomes
              first    == FirstAppended(outcomes)
          IN  /\ ret'.op = "gsheet_log_batch"
              /\ ~ret'.raised
              /\ Cardinality(Touched) <= 1
              /\ \A k \in Touched :
                     /\ sheets'[SHEET_INFO[k]] = sheets[SHEET_INFO[k]] \o rows
                     /\ outcomes[k] = "appended"
                     /\ \A j \in 1..(k - 1) : outcomes[j] # "appended"
                     /\ ret'.arg.gspread_available
              /\ rows = << >> => (Touched = {} /\ ret'.value.tried = << >>)
              /\ (rows # << >> /\ ret'.arg.gspread_available) =>
                     /\ ret'.value.tried =
                            SubSeq(SHEET_INFO, 1, Min(first, Len(SHEET_INFO)))
                     /\ Touched = {first} \cap (1..Len(SHEET_INFO))]_vars

\* the first sheet failed and the second took the batch of two rows, after
\* a call in which every sheet failed
C40_Witness ==
    /\ Len(calls) = 2
    /\ calls[1].arg.rows # << >> /\ calls[1].value.tried = SHEET_INFO
    /\ calls[1].value.errors = 1
    /\ ret.value.tried = SHEET_INFO
    /\ sheets["gsheet_b5"] = << >>
    /\ sheets["gsheet_b4"] = <<"row 2", "row 3">>

-----------------------------------------------------------------------------
(* Properties of the free-recall screens, checked under SpecRecallFlow *)

\* a session is under way and not finished
MidSession == recall_state.phase \in {"encoding", "distractor", "recall"}

\* C14: Stop during encoding, distractor or recall discards the incomplete
\* session: the step leaves a session whose end_time is not stamped and
\* that holds no response, and ends in the fresh application state (phase
\* setup, no key referring to the session any more); end_time is stamped,
\* and a session is scored and exported, only on the results screen, which
\* a discarded session never reaches.  Checked under SpecRecallFlow.
C14_StopDiscards ==
    /\ [](MidSession =>
            /\ RecallSession.end_time = None
            /\ RecallSession.recalled_words = << >>
            /\ recall_ret.op # "calculate_recall_scores")
    /\ [](recall_ret.op = "calculate_recall_scores" =>
            /\ recall_state.phase = "results"
            /\ RecallSession.end_time # None)
    /\ [][recall_ret'.op = "reset_experiment" =>
            /\ MidSession
            /\ recall_state'.phase = "setup"
            /\ recall_state'.session = None
            /\ recall_state' = RecallSessionState]_vars

\* Stop pressed on the recall screen
C14_Witness ==
    /\ recall_ret.op = "reset_experiment"
    /\ recall_ret.arg = "recall"
    /\ recall_state.phase = "setup"
    /\ recall_state.session = None

-----------------------------------------------------------------------------
(* Properties of select_deck called directly, checked under SpecDirect *)

\* the session is completed
Completed == session.end_time # None /\ ui.game_ended

\* C12: once the session is completed (end_time stamped, game_ended set) no
\* step appends a trial, changes current_balance or advances a deck cursor,
\* and a select_deck call on it raises instead of being applied.
C12_CompletedIsFrozen ==
    [][Completed =>
          /\ session'.trials = session.trials
          /\ session'.current_balance = session.current_balance
          /\ deck_manager'.deck_indices = deck_manager.deck_indices
          /\ ret'.op = "select_deck" => ret'.raised]_vars

\* C13: after a select_deck call on a deck, whether or not its batch
\* logging raised, the call has not aborted, the trial is the last of
\* session.trials with current_balance equal to its balance_after,
\* last_result is that trial, and game_ended is set exactly when
\* len(trials) >= total_trials.
C13_LoggingFailureTolerated ==
    (ret.op = "select_deck" /\ ret.arg \in Decks) =>
        LET trial == session.trials[Len(session.trials)]
        IN  /\ ~ret.raised
            /\ session.trials # << >>
            /\ trial.deck_choice = ret.arg
            /\ session.current_balance = trial.balance_after
            /\ ui.last_result = Some(trial)
            /\ ui.game_ended <=> Len(session.trials) >= session.total_trials

====
